---- MODULE Spec2Model ----
(***************************************************************************)
(* State-machine model of the poker platform: the table engine             *)
(* (src/app/poker/table.py), the deck (src/app/poker/deck.py) and the      *)
(* session layer around it (src/app/tables_api.py, src/app/ws_api.py).     *)
(*                                                                         *)
(* Engine operations are operators from a table record to a result record  *)
(* [t |-> table after the call, err |-> "" or the ValueError message].     *)
(* When Python raises in the middle of a method, t holds the assignments   *)
(* that were made before the raise.                                        *)
(*                                                                         *)
(* Chips: Python divides the pot with "/" (float division).  Every chip    *)
(* amount of the model is an integer number of 1/Unit chips, with Unit     *)
(* chosen so that every split the bounded model can make is exact.         *)
(***************************************************************************)
EXTENDS Integers, Sequences, FiniteSets, TLC

\* ---------------------------------------------------------------- bounds

\* seats of the modelled table (Table(max_seats=...))
MaxSeats == 3
\* hands that may be started on the table
MaxHands == 1
\* times the wall clock may advance
MaxTicks == 1
\* deck orders the shuffle may produce
Shuffles == 1
\* largest raise_to amount a request may name, in chips
MaxRaise == 5
\* smallest raise_to amount a request to the HTTP API names, in chips
FullRaise == 4
\* users known to the platform
NumUsers == 2
\* websockets that may be open
NumSockets == 1
\* TableSession rows that may be written
MaxSessions == 2
\* seats of the table created through the API
ApiSeats == 2
\* balance of every user before the first buy-in, in chips
Wallet == 5
\* player ids the seating specification may hand out
MaxPlayerIds == 4
\* the two buy-ins / starting stacks a player may sit down with, in chips
ShortStack == 3
DeepStack == 5
\* the bomb-pot configuration a table may be created with
BombEvery == 1
BombAmount == 2

\* ------------------------------------------------------ program constants

DEFAULT_SMALL_BLIND == 1
DEFAULT_BIG_BLIND == 2
ACTION_TIME_LIMIT == 30
RECENT_HANDS_KEPT == 50
DECK_SIZE == 52
RANKS_PER_SUIT == 13

\* Python's None, for seats, user ids, deadlines and amounts
None == -1

\* ---------------------------------------------------------------- helpers

RECURSIVE Gcd(_, _)
Gcd(a, b) == IF b = 0 THEN a ELSE Gcd(b, a % b)

RECURSIVE LcmUpTo(_)
LcmUpTo(n) == IF n <= 1 THEN 1 ELSE LET l == LcmUpTo(n - 1) IN (l * n) \div Gcd(l, n)

RECURSIVE Pow(_, _)
Pow(b, e) == IF e = 0 THEN 1 ELSE b * Pow(b, e - 1)

\* 1 chip = Unit model units: a pot is split at most once per hand, among at
\* most MaxSeats winners
Unit == Pow(LcmUpTo(MaxSeats), MaxHands)

Chips(n) == n * Unit

SetMin(S) == CHOOSE x \in S : \A y \in S : x <= y
SetMax(S) == CHOOSE x \in S : \A y \in S : x >= y
Max2(a, b) == IF a >= b THEN a ELSE b
Min2(a, b) == IF a <= b THEN a ELSE b

RECURSIVE SumSeq(_)
SumSeq(s) == IF s = <<>> THEN 0 ELSE s[1] + SumSeq(Tail(s))

Ok(t) == [t |-> t, err |-> ""]
Err(t, msg) == [t |-> t, err |-> msg]

\* ------------------------------------------------------------ cards, deck

\* Deck.reset builds [Card(rank, suit) for suit in Suit for rank in Rank]:
\* card c of that list has suit c \div 13 and rank 2 + c % 13
CardRank(c) == 2 + (c % RANKS_PER_SUIT)
CardSuit(c) == c \div RANKS_PER_SUIT

RankShort(r) ==
    CASE r = 10 -> "T" [] r = 11 -> "J" [] r = 12 -> "Q" [] r = 13 -> "K" [] r = 14 -> "A"
      [] OTHER -> ToString(r)

SuitShort(s) == CASE s = 0 -> "c" [] s = 1 -> "d" [] s = 2 -> "h" [] OTHER -> "s"

\* Card.__str__
CardStr(c) == RankShort(CardRank(c)) \o SuitShort(CardSuit(c))

\* Deck.shuffle: SystemRandom orders the 52 cards; the model lets it choose
\* among Shuffles orders (order k starts k*7 cards into the sorted deck)
ShuffledCard(order, pos) == ((pos - 1) + 7 * order) % DECK_SIZE

\* the deck is [order, remaining]: _cards is the first `remaining` cards of
\* the chosen order
DeckReset(order) == [order |-> order, remaining |-> DECK_SIZE]

\* Deck.deal_one: _cards.pop() takes the last card
DeckTop(deck) == ShuffledCard(deck.order, deck.remaining)
DeckPop(deck) == [deck EXCEPT !.remaining = @ - 1]

\* --------------------------------------------------------------- players

NewPlayer(id, seat, stack, user_id) ==
    [id |-> id, seat |-> seat, hole_cards |-> <<>>, in_hand |-> TRUE,
     has_folded |-> FALSE, stack |-> stack, committed |-> 0, all_in |-> FALSE,
     user_id |-> user_id]

NewTable(max_seats, small_blind, big_blind, bomb_every, bomb_amount) ==
    [max_seats |-> max_seats,
     players |-> <<>>,
     deck |-> DeckReset(0),
     board |-> <<>>,
     hand_number |-> 0,
     pot |-> 0,
     current_bet |-> 0,
     street |-> "prehand",
     dealer_seat |-> 0,
     dealer_button_seat |-> None,
     small_blind_seat |-> None,
     big_blind_seat |-> None,
     small_blind |-> small_blind,
     big_blind |-> big_blind,
     next_to_act_seat |-> None,
     action_deadline |-> None,
     action_time_limit |-> ACTION_TIME_LIMIT,
     action_closing_seat |-> None,
     bomb_pot_every_n_hands |-> bomb_every,
     bomb_pot_amount |-> bomb_amount,
     next_player_id |-> 1,
     recent_hands |-> <<>>,
     current_hand_log |-> None,
     pending_leave_user_ids |-> {},
     hand_start_stacks |-> <<>>]

PIdx(t) == DOMAIN t.players
Seats(t) == {t.players[i].seat : i \in PIdx(t)}

\* index of the first player of the list with this id / seat / user, 0 if none
FirstIdx(S) == IF S = {} THEN 0 ELSE SetMin(S)
IdxById(t, pid) == FirstIdx({i \in PIdx(t) : t.players[i].id = pid})
IdxBySeat(t, seat) == FirstIdx({i \in PIdx(t) : t.players[i].seat = seat})
IdxByUser(t, user_id) == FirstIdx({i \in PIdx(t) : t.players[i].user_id = user_id})

RemoveAt(s, i) == SubSeq(s, 1, i - 1) \o SubSeq(s, i + 1, Len(s))

\* --------------------------------------------------------------- seating

add_player(t, starting_stack, user_id, seat) ==
    LET taken == Seats(t)
        free == (0 .. t.max_seats - 1) \ taken
    IN  IF Len(t.players) >= t.max_seats THEN Err(t, "Table is full")
        ELSE IF seat # None /\ (seat < 0 \/ seat >= t.max_seats)
            THEN Err(t, "Invalid seat number")
        ELSE IF seat # None /\ seat \in taken THEN Err(t, "Seat already occupied")
        ELSE IF seat = None /\ free = {} THEN Err(t, "No available seats")
        ELSE LET chosen == IF seat # None THEN seat ELSE SetMin(free)
             IN  Ok([t EXCEPT
                        !.players = Append(@, NewPlayer(t.next_player_id, chosen,
                                                        starting_stack, user_id)),
                        !.next_player_id = @ + 1])

\* move_player_to_seat without the look at the other players' seats
MoveWithoutSeatCheck(t, user_id, seat) ==
    LET i == IdxByUser(t, user_id)
    IN  IF seat < 0 \/ seat >= t.max_seats THEN Err(t, "Invalid seat number")
        ELSE IF i = 0 THEN Err(t, "Player not seated")
        ELSE Ok([t EXCEPT !.players[i].seat = seat])

move_player_to_seat(t, user_id, seat) ==
    LET i == IdxByUser(t, user_id)
    IN  IF seat < 0 \/ seat >= t.max_seats THEN Err(t, "Invalid seat number")
        ELSE IF i = 0 THEN Err(t, "Player not seated")
        ELSE IF \E j \in PIdx(t) :
                    t.players[j].user_id # user_id /\ t.players[j].seat = seat
            THEN Err(t, "Seat already occupied")
        ELSE Ok([t EXCEPT !.players[i].seat = seat])

ClearIf(marker, seat) == IF marker = seat THEN None ELSE marker

remove_player_by_user(t, user_id) ==
    LET i == IdxByUser(t, user_id)
    IN  IF i = 0 THEN Err(t, "No player for that user id")
        ELSE LET seat == t.players[i].seat
                 nta == ClearIf(t.next_to_act_seat, seat)
             IN  Ok([t EXCEPT
                        !.players = RemoveAt(@, i),
                        !.dealer_seat = ClearIf(@, seat),
                        !.dealer_button_seat = ClearIf(@, seat),
                        !.small_blind_seat = ClearIf(@, seat),
                        !.big_blind_seat = ClearIf(@, seat),
                        !.next_to_act_seat = nta,
                        !.action_deadline = IF nta = None THEN None ELSE @])

\* ------------------------------------------------------- seat navigation

\* what the model returns where Python raises ValueError("Seat not occupied")
SEAT_NOT_OCCUPIED == -2

\* a player who can still act: in the hand, not folded, not all-in
CanAct(p) == p.in_hand /\ ~p.has_folded /\ ~p.all_in

Eligible(t, seat) == CanAct(t.players[IdxBySeat(t, seat)])

\* the first seat of a walk that goes through the seats of S in ascending
\* order and then through those of T; None when both are empty
FirstOf(S, T) ==
    IF S # {} THEN SetMin(S) ELSE IF T # {} THEN SetMin(T) ELSE None

\* the first seat of a walk that goes through the seats of S in descending
\* order and then through those of T
LastOf(S, T) ==
    IF S # {} THEN SetMax(S) ELSE IF T # {} THEN SetMax(T) ELSE None

\* _next_seat: the next occupied seat in ascending order, wrapping around
next_seat(t, seat) ==
    IF seat \notin Seats(t) THEN SEAT_NOT_OCCUPIED
    ELSE FirstOf({s \in Seats(t) : s > seat}, Seats(t))

\* _previous_seat
previous_seat(t, seat) ==
    IF seat \notin Seats(t) THEN SEAT_NOT_OCCUPIED
    ELSE LastOf({s \in Seats(t) : s < seat}, Seats(t))

\* _next_player_to_act: walks _next_seat from start_from_seat and returns the
\* first eligible seat; the start seat itself is looked at last
next_player_to_act(t, start_from_seat) ==
    IF t.players = <<>> THEN None
    ELSE IF start_from_seat \notin Seats(t) THEN SEAT_NOT_OCCUPIED
    ELSE FirstOf({s \in Seats(t) : s > start_from_seat /\ Eligible(t, s)},
                 {s \in Seats(t) : s <= start_from_seat /\ Eligible(t, s)})

\* _previous_active_seat
previous_active_seat(t, start_from_seat) ==
    IF start_from_seat = None \/ t.players = <<>> THEN None
    ELSE IF start_from_seat \notin Seats(t) THEN SEAT_NOT_OCCUPIED
    ELSE LastOf({s \in Seats(t) : s < start_from_seat /\ Eligible(t, s)},
                {s \in Seats(t) : s >= start_from_seat /\ Eligible(t, s)})

\* _set_action_deadline with a time limit of zero
DeadlineAtOnce(t, now) ==
    [t EXCEPT !.action_deadline =
        IF t.next_to_act_seat = None THEN None ELSE now]

\* _set_action_deadline
set_action_deadline(t, now) ==
    [t EXCEPT !.action_deadline =
        IF t.next_to_act_seat = None THEN None ELSE now + t.action_time_limit]

\* ------------------------------------------------------------ hand start

\* _post_blind, applied to the player at index i
\* the chips `post` of the player at index i go from the stack to committed
\* and to the pot; a stack of 0 is all-in
MoveChips(t, i, post) ==
    [t EXCEPT !.players[i].stack = @ - post,
              !.players[i].committed = @ + post,
              !.players[i].all_in = IF t.players[i].stack - post = 0 THEN TRUE ELSE @,
              !.pot = @ + post]

post_blind(t, i, amount) == MoveChips(t, i, Min2(t.players[i].stack, amount))

\* the end of post_blinds: the first to act is the eligible seat after the
\* big blind, and the big blind closes the action
OpenPreflop(t, bb_seat, now) ==
    set_action_deadline(
        [t EXCEPT !.next_to_act_seat = next_player_to_act(t, bb_seat),
                  !.action_closing_seat = bb_seat], now)

\* post_blinds with the players at indexes sb and bb in the blinds
PostBlindsOf(t, sb, bb, now) ==
    OpenPreflop([post_blind(post_blind(t, sb, t.small_blind), bb, t.big_blind)
                    EXCEPT !.small_blind_seat = t.players[sb].seat,
                           !.big_blind_seat = t.players[bb].seat,
                           !.current_bet = Max2(@, t.big_blind)],
                t.players[bb].seat, now)

post_blinds(t, now) ==
    PostBlindsOf(t, IdxBySeat(t, t.dealer_seat),
                 IdxBySeat(t, next_seat(t, t.dealer_seat)), now)

RECURSIVE BombContributions(_, _)
BombContributions(t, i) ==
    IF i > Len(t.players) THEN t
    ELSE BombContributions(MoveChips(t, i, Min2(t.players[i].stack, t.bomb_pot_amount)),
                           i + 1)

Falsy(x) == x = None \/ x = 0

apply_bomb_pot_if_needed(t) ==
    IF Falsy(t.bomb_pot_every_n_hands) \/ Falsy(t.bomb_pot_amount) THEN t
    ELSE IF t.hand_number % t.bomb_pot_every_n_hands # 0 THEN t
    ELSE [BombContributions(t, 1) EXCEPT !.current_bet = Max2(@, t.bomb_pot_amount)]

\* "for _ in range(2): for p in self.players: p.hole_cards.append(deal_one())":
\* player i of n gets the cards of pops i and n + i
DealHoleCards(t) ==
    LET n == Len(t.players)
        pop(k) == ShuffledCard(t.deck.order, t.deck.remaining - k + 1)
    IN  [t EXCEPT
            !.players = [i \in 1 .. n |->
                            [t.players[i] EXCEPT
                                !.hole_cards = @ \o <<pop(i), pop(n + i)>>]],
            !.deck.remaining = @ - 2 * n]

\* NumberHand with the hand number left as it was
KeepHandNumber(t, hn) == t

\* self.hand_number += 1, hn being the number of the hand that starts
NumberHand(t, hn) == [t EXCEPT !.hand_number = hn]

\* the resets of start_new_hand, with the dealer seat it chose
ResetForHand(t, hn, dealer, order) ==
              [NumberHand(t, hn) EXCEPT
                 !.deck = DeckReset(order),
                 !.board = <<>>,
                 !.pot = 0,
                 !.current_bet = 0,
                 !.street = "preflop",
                 !.small_blind_seat = None,
                 !.big_blind_seat = None,
                 !.action_closing_seat = None,
                 !.hand_start_stacks =
                     [i \in PIdx(t) |-> [id |-> t.players[i].id, stack |-> t.players[i].stack]],
                 !.dealer_seat = dealer,
                 !.dealer_button_seat = dealer,
                 !.players = [i \in PIdx(t) |->
                                 [t.players[i] EXCEPT !.hole_cards = <<>>,
                                                      !.in_hand = TRUE,
                                                      !.has_folded = FALSE,
                                                      !.committed = 0,
                                                      !.all_in = FALSE]],
                 !.current_hand_log = hn]

\* the dealer seat of the next hand: the lowest occupied seat on the first
\* hand or when the dealer's seat is empty, else the next occupied seat
NextDealer(t) ==
    IF t.hand_number + 1 = 1 \/ t.dealer_seat \notin Seats(t)
    THEN SetMin(Seats(t))
    ELSE next_seat(t, t.dealer_seat)

start_new_hand(t, order, now) ==
    IF Len(t.players) < 2 THEN Err(t, "Need at least 2 players to start a hand")
    ELSE Ok(post_blinds(
                DealHoleCards(apply_bomb_pot_if_needed(
                    ResetForHand(t, t.hand_number + 1, NextDealer(t), order))),
                now))


\* --------------------------------------------------------------- betting

\* _betting_round_settled
betting_round_settled(t) ==
    \A i \in PIdx(t) :
        LET p == t.players[i]
        IN  (~p.in_hand \/ p.has_folded \/ p.all_in) \/ p.committed = t.current_bet

\* _betting_round_complete / betting_round_complete
betting_round_complete(t) == betting_round_settled(t) /\ t.next_to_act_seat = None

ClearClock(t) == [t EXCEPT !.next_to_act_seat = None, !.action_deadline = None]

\* the end of _advance_turn: the turn passes to the seat nxt, if there is one
TurnTo(t, nxt, now) ==
    IF nxt = None THEN ClearClock(t)
    ELSE set_action_deadline([t EXCEPT !.next_to_act_seat = nxt], now)

\* _advance_turn that leaves the deadline standing when the round closes
AdvanceKeepsDeadline(t, now) ==
    IF \A i \in PIdx(t) : t.players[i].has_folded \/ t.players[i].all_in
        THEN ClearClock(t)
    ELSE IF t.action_closing_seat = t.next_to_act_seat /\ betting_round_settled(t)
        THEN [t EXCEPT !.next_to_act_seat = None]
    ELSE TurnTo(t, next_player_to_act(t, t.next_to_act_seat), now)

\* _advance_turn
advance_turn(t, now) ==
    IF \A i \in PIdx(t) : t.players[i].has_folded \/ t.players[i].all_in
        THEN ClearClock(t)
    ELSE IF t.action_closing_seat = t.next_to_act_seat /\ betting_round_settled(t)
        THEN ClearClock(t)
    ELSE TurnTo(t, next_player_to_act(t, t.next_to_act_seat), now)

\* PutIn with the chips added to the pot but not taken from the stack
PutInKeepingStack(t, i, put_in) ==
    [t EXCEPT !.players[i].committed = @ + put_in,
              !.players[i].all_in = IF t.players[i].stack - put_in = 0 THEN TRUE ELSE @,
              !.pot = @ + put_in]

\* the chips a call or a raise moves: stack -> committed and pot
PutIn(t, i, put_in) ==
    [t EXCEPT !.players[i].stack = @ - put_in,
              !.players[i].committed = @ + put_in,
              !.players[i].all_in = IF t.players[i].stack - put_in = 0 THEN TRUE ELSE @,
              !.pot = @ + put_in]

\* the "raise_to" branch of _apply_action, after its checks
RaiseTo(t, i, amount) ==
    [PutIn(t, i, Min2(t.players[i].stack, amount - t.players[i].committed))
        EXCEPT !.current_bet =
                   Max2(@, t.players[i].committed
                           + Min2(t.players[i].stack, amount - t.players[i].committed)),
               !.action_closing_seat = t.players[i].seat]

\* the tail of _apply_action: move the closing seat off a player who can no
\* longer act, then _advance_turn
AfterAction(t, i, now) ==
    advance_turn(
        IF /\ t.action_closing_seat = t.players[i].seat
           /\ (t.players[i].has_folded \/ t.players[i].all_in)
        THEN [t EXCEPT !.action_closing_seat = previous_active_seat(t, t.players[i].seat)]
        ELSE t,
        now)

\* the branch of _apply_action for `action`, taken by the player p at index i
Acted(t, i, p, action, amount) ==
    CASE action = "fold" ->
            Ok([t EXCEPT !.players[i].has_folded = TRUE, !.players[i].in_hand = FALSE])
      [] action = "check" ->
            IF p.committed # t.current_bet
            THEN Err(t, "Cannot check when facing a bet")
            ELSE Ok(t)
      [] action = "call" ->
            IF t.current_bet - p.committed <= 0 THEN Ok(t)
            ELSE Ok(PutIn(t, i, Min2(p.stack, t.current_bet - p.committed)))
      [] action = "raise_to" ->
            IF amount = None THEN Err(t, "amount required for raise_to")
            ELSE IF amount <= t.current_bet
                THEN Err(t, "raise_to amount must be greater than current bet")
            ELSE IF amount - p.committed <= 0
                THEN Err(t, "Player has already committed that much")
            ELSE Ok(RaiseTo(t, i, amount))
      [] OTHER -> Err(t, "Unknown action")

\* an action that raised leaves the table as it was; one that did not is
\* followed by the tail of _apply_action
Settle(r, i, now) == IF r.err # "" THEN r ELSE Ok(AfterAction(r.t, i, now))

\* ApplyAt without the test of whose turn it is
ApplyOutOfTurn(t, i, action, amount, now) ==
    IF t.next_to_act_seat = None THEN Err(t, "No player is set to act")
    ELSE IF i = 0 THEN Err(t, "No player with id")
    ELSE IF t.players[i].has_folded \/ ~t.players[i].in_hand \/ t.players[i].all_in
        THEN Err(t, "Player cannot act (folded or all-in)")
    ELSE Settle(Acted(t, i, t.players[i], action, amount), i, now)

\* _apply_action for the player at index i of the list (0: no such player)
ApplyAt(t, i, action, amount, now) ==
    IF t.next_to_act_seat = None THEN Err(t, "No player is set to act")
    ELSE IF i = 0 THEN Err(t, "No player with id")
    ELSE IF t.players[i].seat # t.next_to_act_seat THEN Err(t, "Not player's turn to act")
    ELSE IF t.players[i].has_folded \/ ~t.players[i].in_hand \/ t.players[i].all_in
        THEN Err(t, "Player cannot act (folded or all-in)")
    ELSE Settle(Acted(t, i, t.players[i], action, amount), i, now)

\* _apply_action (player_action calls it with auto = False)
apply_action(t, player_id, action, amount, now) ==
    ApplyAt(t, IdxById(t, player_id), action, amount, now)

\* -------------------------------------------------------------- streets

\* the resets of reset_committed_for_new_street
ZeroCommitted(t) ==
    [t EXCEPT !.current_bet = 0,
              !.players = [i \in PIdx(t) |-> [t.players[i] EXCEPT !.committed = 0]]]

\* the end of reset_committed_for_new_street: nta is first to act and the
\* eligible seat before nta closes the action
OpenStreet(t, nta, now) ==
    IF nta = SEAT_NOT_OCCUPIED THEN Err(t, "Seat not occupied")
    ELSE Ok(set_action_deadline(
                [t EXCEPT !.next_to_act_seat = nta,
                          !.action_closing_seat =
                              previous_active_seat([t EXCEPT !.next_to_act_seat = nta], nta)],
                now))

\* OpenStreet with nta itself closing the action
OpenStreetClosingOn(t, nta, now) ==
    IF nta = SEAT_NOT_OCCUPIED THEN Err(t, "Seat not occupied")
    ELSE Ok(set_action_deadline(
                [t EXCEPT !.next_to_act_seat = nta, !.action_closing_seat = nta], now))

\* reset_committed_for_new_street closing the street on its first actor
ResetClosingOnFirstActor(t, now) ==
    OpenStreetClosingOn(ZeroCommitted(t),
                        next_player_to_act(ZeroCommitted(t), t.dealer_seat), now)

\* reset_committed_for_new_street; _next_player_to_act raises when the dealer
\* seat is no longer occupied, after current_bet and committed were reset
reset_committed_for_new_street(t, now) ==
    OpenStreet(ZeroCommitted(t), next_player_to_act(ZeroCommitted(t), t.dealer_seat), now)

RECURSIVE DealToBoard(_, _)
DealToBoard(t, n) ==
    IF n = 0 THEN t
    ELSE DealToBoard([t EXCEPT !.board = Append(@, DeckTop(t.deck)),
                               !.deck = DeckPop(@)], n - 1)

deal_flop(t, now) ==
    IF t.street # "preflop" THEN Err(t, "Flop can only be dealt after preflop betting")
    ELSE reset_committed_for_new_street([DealToBoard(t, 3) EXCEPT !.street = "flop"], now)

deal_turn(t, now) ==
    IF t.street # "flop" THEN Err(t, "Turn can only be dealt after flop")
    ELSE reset_committed_for_new_street([DealToBoard(t, 1) EXCEPT !.street = "turn"], now)

deal_river(t, now) ==
    IF t.street # "turn" THEN Err(t, "River can only be dealt after turn")
    ELSE reset_committed_for_new_street([DealToBoard(t, 1) EXCEPT !.street = "river"], now)

\* ------------------------------------------------------------- showdown

\* _finalize_hand
finalize_hand(t, reason, pot_amount, paid) ==
    IF t.current_hand_log = None THEN t
    ELSE LET log == Append(t.recent_hands,
                           [hand_number |-> t.current_hand_log, reason |-> reason,
                            pot |-> pot_amount, paid |-> paid])
             n == Len(log)
         IN  [t EXCEPT !.recent_hands =
                          IF n > RECENT_HANDS_KEPT
                          THEN SubSeq(log, n - RECENT_HANDS_KEPT + 1, n) ELSE log,
                       !.current_hand_log = None]

\* the players determine_winner ranks
Contenders(t) == {i \in PIdx(t) : t.players[i].in_hand /\ ~t.players[i].has_folded}

\* best_hand raises when a player's hole cards and the board are fewer than 5
CannotRank(t) ==
    \E i \in Contenders(t) : Len(t.players[i].hole_cards) + Len(t.board) < 5

\* showdown, with the winners determine_winner returned
showdown(t, winners) ==
    IF CannotRank(t)
    THEN Err(t, "Unable to determine best hand from the provided cards")
    ELSE LET t1 == IF winners # {} /\ t.pot > 0
                   THEN LET share == t.pot \div Cardinality(winners)
                        IN  [t EXCEPT
                               !.players = [i \in PIdx(t) |->
                                   IF i \in winners
                                   THEN [t.players[i] EXCEPT !.stack = @ + share]
                                   ELSE t.players[i]],
                               !.pot = 0]
                   ELSE t
             paid == IF winners # {} /\ t.pot > 0
                     THEN (t.pot \div Cardinality(winners)) * Cardinality(winners)
                     ELSE 0
         IN  Ok(finalize_hand([t1 EXCEPT !.street = "showdown"], "showdown", t.pot, paid))

\* ----------------------------------------------------------- turn timer

\* the auto-fold r of enforce_action_timeout on table t: an error clears the
\* clock and returns None
AutoFolded(t, r) ==
    IF r.err # "" THEN [t |-> ClearClock(t), action |-> "none"]
    ELSE [t |-> r.t, action |-> "fold"]

\* the end of enforce_action_timeout: the player at index i is folded
AutoFold(t, i, now) ==
    IF i = 0 THEN [t |-> ClearClock(t), action |-> "none"]
    ELSE AutoFolded(t, apply_action(t, t.players[i].id, "fold", None, now))

\* enforce_action_timeout without the test of the deadline
EnforceBeforeDeadline(t, now) ==
    IF t.next_to_act_seat = None \/ t.action_deadline = None
        THEN [t |-> t, action |-> "none"]
    ELSE AutoFold(t, IdxBySeat(t, t.next_to_act_seat), now)

\* enforce_action_timeout: the table after the call and the action it
\* returns ("none" for Python's None)
enforce_action_timeout(t, now) ==
    IF t.next_to_act_seat = None \/ t.action_deadline = None
        THEN [t |-> t, action |-> "none"]
    ELSE IF now < t.action_deadline THEN [t |-> t, action |-> "none"]
    ELSE AutoFold(t, IdxBySeat(t, t.next_to_act_seat), now)


\* ------------------------------------------- session layer: progression

\* Table.active_players
active_players(t) ==
    {i \in PIdx(t) : t.players[i].in_hand /\ ~t.players[i].has_folded
                     /\ t.players[i].stack >= 0}

\* the calls of a try block in sequence: an error ends the block, and each
\* deal is made on the street it follows
FlopIf(r, now) ==
    IF r.err = "" /\ r.t.street = "preflop" THEN deal_flop(r.t, now) ELSE r
TurnIf(r, now) ==
    IF r.err = "" /\ r.t.street = "flop" THEN deal_turn(r.t, now) ELSE r
RiverIf(r, now) ==
    IF r.err = "" /\ r.t.street = "turn" THEN deal_river(r.t, now) ELSE r
ShowIf(r, winners) ==
    IF r.err = "" THEN showdown(r.t, winners) ELSE r

\* every remaining player is all-in: the streets still to come are dealt and
\* the hand is shown down
RunOut(t, winners, now) ==
    ShowIf(RiverIf(TurnIf(FlopIf(Ok(t), now), now), now), winners)

\* the betting round is complete: the next street is dealt, or the river is
\* shown down
OneStreet(t, winners, now) ==
    CASE t.street = "preflop" -> deal_flop(t, now)
      [] t.street = "flop" -> deal_turn(t, now)
      [] t.street = "turn" -> deal_river(t, now)
      [] t.street = "river" -> showdown(t, winners)
      [] OTHER -> Ok(t)

\* the all-fold award of _auto_progress_hand to the player at index w
AwardTo(t, w) ==
    finalize_hand([t EXCEPT !.players[w].stack = @ + t.pot,
                            !.pot = 0,
                            !.street = "showdown",
                            !.next_to_act_seat = None,
                            !.action_deadline = None],
                  "all_folded", t.pot, t.pot)

\* "return engine_table.street == 'showdown'"; the `return True` after a
\* showdown() that did not raise returns the same, showdown() having set the
\* street
Ended(x) == [t |-> x, finished |-> x.street = "showdown"]

\* _auto_progress_hand with `remaining` computed
Progress(t, remaining, winners, now) ==
    IF Cardinality(remaining) = 1 /\ t.street # "showdown"
    THEN [t |-> AwardTo(t, CHOOSE i \in remaining : TRUE), finished |-> TRUE]
    ELSE IF t.street = "showdown" THEN [t |-> t, finished |-> TRUE]
    ELSE IF t.next_to_act_seat = None /\ betting_round_complete(t)
    THEN IF remaining # {} /\ \A i \in remaining : t.players[i].all_in
         THEN Ended(RunOut(t, winners, now).t)
         ELSE Ended(OneStreet(t, winners, now).t)
    ELSE Ended(t)

\* _auto_progress_hand: the table after the call and the value it returns;
\* `winners` is what determine_winner returns should the call reach showdown
auto_progress_hand(t, winners, now) ==
    Progress(t, {i \in active_players(t) : ~t.players[i].has_folded}, winners, now)

\* ---------------------------------------- session layer: wallet and rows

\* int(round(x)): Python rounds to the nearest whole chip, halves to even
RoundChips(x) ==
    LET q == x \div Unit
        r == x % Unit
    IN  IF 2 * r < Unit THEN q * Unit
        ELSE IF 2 * r > Unit THEN (q + 1) * Unit
        ELSE IF q % 2 = 0 THEN q * Unit ELSE (q + 1) * Unit

\* _active_session that never finds a row
NoActiveSession(ses, user_id) == 0

\* _active_session: the latest TableSession row of the user without a
\* cash-out, as an index into the rows; 0 for Python's None
active_session(ses, user_id) ==
    LET open == {k \in DOMAIN ses : ses[k].user_id = user_id /\ ses[k].cash_out = None}
    IN  IF open = {} THEN 0 ELSE SetMax(open)

\* _finalize_session
finalize_session(ses, user_id, cash_out) ==
    LET k == active_session(ses, user_id)
    IN  IF k = 0 THEN ses
        ELSE [ses EXCEPT ![k].cash_out = RoundChips(cash_out),
                         ![k].profit_loss = RoundChips(cash_out) - ses[k].buy_in]

\* what a handler works on: the engine table, the users' balances and the
\* TableSession rows
World(t, bal, ses) == [t |-> t, bal |-> bal, ses |-> ses]
Accept(w) == [w |-> w, err |-> ""]
Reject(w, msg) == [w |-> w, err |-> msg]

\* BoughtIn with the buy-in left in the balance
BoughtInKeepingBalance(w, r, user_id, buy_in) ==
    IF r.err # "" THEN Reject(w, r.err)
    ELSE Accept(World(r.t, w.bal,
                      Append(w.ses, [user_id |-> user_id, buy_in |-> buy_in,
                                     cash_out |-> None, profit_loss |-> None])))

\* the end of sit_me: add_player raised, or the buy-in leaves the balance
\* and a TableSession row is added
BoughtIn(w, r, user_id, buy_in) ==
    IF r.err # "" THEN Reject(w, r.err)
    ELSE Accept(World(r.t, [w.bal EXCEPT ![user_id] = @ - buy_in],
                      Append(w.ses, [user_id |-> user_id, buy_in |-> buy_in,
                                     cash_out |-> None, profit_loss |-> None])))

\* a handler whose engine call raised, or left the table r.t
OnTable(w, r) == IF r.err # "" THEN Reject(w, r.err) ELSE Accept([w EXCEPT !.t = r.t])

\* sit_me up to its broadcast
sit_me(w, user_id, seat, buy_in) ==
    IF IdxByUser(w.t, user_id) # 0 THEN Reject(w, "User already seated at this table")
    ELSE IF active_session(w.ses, user_id) # 0
        THEN Reject(w, "You already have an open session here")
    ELSE IF buy_in <= 0 THEN Reject(w, "Buy-in must be positive")
    ELSE IF w.bal[user_id] < buy_in THEN Reject(w, "Insufficient balance for buy-in")
    ELSE BoughtIn(w, add_player(w.t, buy_in, user_id, seat), user_id, buy_in)

\* change_seat up to its broadcast
change_seat(w, user_id, seat) ==
    IF w.t.street \notin {"prehand", "showdown"}
    THEN Reject(w, "You can only change seats between hands")
    ELSE OnTable(w, move_player_to_seat(w.t, user_id, seat))

\* leave_table up to its broadcast; pending is the deferred leave, which
\* returns without a broadcast
leave_table(w, user_id) ==
    LET i == IdxByUser(w.t, user_id)
        in_active_hand == w.t.street \notin {"prehand", "showdown"}
                          /\ w.t.next_to_act_seat # None
    IN  IF w.t.players = <<>>
        THEN [w |-> w, err |-> "Table is already empty", pending |-> FALSE]
        ELSE IF i = 0
        THEN [w |-> w, err |-> "You are not seated at this table", pending |-> FALSE]
        ELSE IF in_active_hand
        THEN [w |-> [w EXCEPT !.t.pending_leave_user_ids = @ \cup {user_id}],
              err |-> "", pending |-> TRUE]
        ELSE LET stack == w.t.players[i].stack
             IN  [w |-> World(remove_player_by_user(w.t, user_id).t,
                              [w.bal EXCEPT ![user_id] = @ + stack],
                              finalize_session(w.ses, user_id, stack)),
                  err |-> "", pending |-> FALSE]

\* _process_pending_leavers, the pending user ids taken in ascending order
RECURSIVE StandUp(_, _)
StandUp(w, ids) ==
    IF ids = {} THEN w
    ELSE LET u == SetMin(ids)
             i == IdxByUser(w.t, u)
         IN  IF i = 0
             THEN StandUp([w EXCEPT !.t.pending_leave_user_ids = @ \ {u}], ids \ {u})
             ELSE LET stack == w.t.players[i].stack
                      t1 == remove_player_by_user(w.t, u).t
                  IN  StandUp(World([t1 EXCEPT !.pending_leave_user_ids = @ \ {u}],
                                    [w.bal EXCEPT ![u] = @ + stack],
                                    finalize_session(w.ses, u, stack)),
                              ids \ {u})

process_pending_leavers(w) == StandUp(w, w.t.pending_leave_user_ids)

\* _record_hand_history: one HandHistory row per seated user of the hand
record_hand_history(rows, t) ==
    LET Start(pid) == {k \in DOMAIN t.hand_start_stacks : t.hand_start_stacks[k].id = pid}
        mine == SelectSeq(t.players,
                          LAMBDA p : p.user_id # None /\ Start(p.id) # {})
        Net(p) == p.stack - t.hand_start_stacks[CHOOSE k \in Start(p.id) : TRUE].stack
    IN  IF t.hand_start_stacks = <<>> THEN rows
        ELSE rows \o [k \in DOMAIN mine |->
                        [user_id |-> mine[k].user_id,
                         hand_number |-> t.hand_number,
                         result |-> IF Net(mine[k]) > 0 THEN "Win"
                                    ELSE IF Net(mine[k]) < 0 THEN "Loss" ELSE "Even",
                         net_change |-> IF Net(mine[k]) >= 0 THEN RoundChips(Net(mine[k]))
                                        ELSE 0 - RoundChips(0 - Net(mine[k]))]]

\* _persist_table_stacks: the TableStack rows, oldest first
persist_table_stacks(rows, t) ==
    LET seated == SelectSeq(t.players, LAMBDA p : p.user_id # None)
        Row(p) == [user_id |-> p.user_id, seat |-> p.seat, stack |-> RoundChips(p.stack)]
        Of(u) == Row(seated[CHOOSE k \in DOMAIN seated : seated[k].user_id = u])
        Seen(u) == \E k \in DOMAIN seated : seated[k].user_id = u
        kept == SelectSeq(rows, LAMBDA row : Seen(row.user_id))
        Had(u) == \E k \in DOMAIN rows : rows[k].user_id = u
        fresh == SelectSeq(seated, LAMBDA p : ~Had(p.user_id))
    IN  [k \in DOMAIN kept |-> Of(kept[k].user_id)] \o [k \in DOMAIN fresh |-> Row(fresh[k])]

\* _restore_persisted_stacks
RECURSIVE Reseat(_, _)
Reseat(t, rows) ==
    IF rows = <<>> THEN t
    ELSE LET row == Head(rows)
             r == add_player(t, row.stack, row.user_id, row.seat)
         IN  Reseat(IF r.err = "" THEN r.t
                    ELSE add_player(t, row.stack, row.user_id, None).t, Tail(rows))

restore_persisted_stacks(t, rows) ==
    LET t1 == Reseat(t, rows)
    IN  IF t1.players = <<>> THEN t1
        ELSE [t1 EXCEPT !.next_player_id =
                            SetMax({t1.players[i].id : i \in PIdx(t1)}) + 1]

\* _get_engine_table when TABLES has no entry for the table
get_engine_table(meta, rows) ==
    restore_persisted_stacks(NewTable(meta.max_seats, meta.small_blind, meta.big_blind,
                                      meta.bomb_pot_every_n_hands, meta.bomb_pot_amount),
                             rows)

\* _apply_timeouts: enforce_action_timeout is called until it returns None
RECURSIVE apply_timeouts(_, _)
UntilNone(r, now) == IF r.action = "none" THEN r.t ELSE apply_timeouts(r.t, now)
apply_timeouts(t, now) == UntilNone(enforce_action_timeout(t, now), now)

\* determine_winner: the winners are the contenders whose best hand has the
\* highest rank.  Which contenders those are is decided by the shuffled cards:
\* any non-empty set of them may tie for the best rank, except that a contender
\* without hole cards plays the board, which every other contender's seven
\* cards contain, and so is among the winners only when all of them tie.
\* WinnersBy is the set returned when the cards favour the players of pref.
WinnersBy(t, pref) ==
    LET W == pref \cap Contenders(t)
    IN  IF W = {} \/ (\E i \in W : t.players[i].hole_cards = <<>>)
        THEN Contenders(t) ELSE W

\* _auto_start_hand_if_ready that starts the first hand only
AutoStartFirstHandOnly(t, order, now) ==
    IF Len(t.players) < 2 \/ t.street # "prehand" THEN t
    ELSE start_new_hand(t, order, now).t

\* _auto_start_hand_if_ready
auto_start_hand_if_ready(t, order, now) ==
    IF Len(t.players) < 2 \/ t.street \notin {"prehand", "showdown"} THEN t
    ELSE start_new_hand(t, order, now).t

\* the engine calls of broadcast_table_state
ProgressedBy(t, pref, now) == auto_progress_hand(t, WinnersBy(t, pref), now)

BroadcastTable(t, pref, order, now) ==
    auto_start_hand_if_ready(ProgressedBy(apply_timeouts(t, now), pref, now).t, order, now)

\* the placeholder of a masked card
MASK == "XX"

\* _table_state_for_viewer that masks nothing for a viewer without a user id
StateUnmaskedForAnonymous(t, viewer_user_id) ==
    [hand_number |-> t.hand_number,
     street |-> t.street,
     board |-> [k \in DOMAIN t.board |-> CardStr(t.board[k])],
     players |-> [i \in PIdx(t) |->
        [id |-> t.players[i].id,
         seat |-> t.players[i].seat,
         user_id |-> t.players[i].user_id,
         hole_cards |->
            IF viewer_user_id = None \/ t.players[i].user_id = None
               \/ t.players[i].user_id = viewer_user_id
            THEN [k \in DOMAIN t.players[i].hole_cards |-> CardStr(t.players[i].hole_cards[k])]
            ELSE [k \in DOMAIN t.players[i].hole_cards |-> MASK]]]]

\* _table_state_for_viewer: the fields of the frame the model keeps
table_state_for_viewer(t, viewer_user_id) ==
    [hand_number |-> t.hand_number,
     street |-> t.street,
     board |-> [k \in DOMAIN t.board |-> CardStr(t.board[k])],
     players |-> [i \in PIdx(t) |->
        [id |-> t.players[i].id,
         seat |-> t.players[i].seat,
         user_id |-> t.players[i].user_id,
         hole_cards |->
            IF t.players[i].user_id = None \/ t.players[i].user_id = viewer_user_id
            THEN [k \in DOMAIN t.players[i].hole_cards |-> CardStr(t.players[i].hole_cards[k])]
            ELSE [k \in DOMAIN t.players[i].hole_cards |-> MASK]]]]

\* ================================================================ state

VARIABLES
    table,          \* the engine Table of the modelled table id (TABLES[table_id])
    now,            \* time.time()
    meta,           \* the PokerTable row of the table
    balance,        \* User.balance of every user
    sessions,       \* the TableSession rows of the table, oldest first
    stack_rows,     \* the TableStack rows of the table, oldest first
    hand_history,   \* the HandHistory rows, oldest first
    conns,          \* the websockets: TABLE_CONNECTIONS and USER_CONNECTIONS
    frames,         \* the last TableState frame sent on every websocket
    asked,          \* a call made on its own: what was called, with its arguments
    answered        \* what that call returned or raised

vars == <<table, now, meta, balance, sessions, stack_rows, hand_history, conns, frames,
          asked, answered>>
db == <<meta, balance, sessions, stack_rows, hand_history>>
net == <<conns, frames>>
rpc == <<asked, answered>>

Users == 1 .. NumUsers
Sockets == 1 .. NumSockets
StackChoices == {Chips(ShortStack), Chips(DeepStack)}
RaiseChoices == {None} \cup {Chips(n) : n \in 1 .. MaxRaise}
ActionChoices == {"fold", "check", "call", "raise_to", "bet"}
BombChoices == {<<None, None>>, <<BombEvery, Chips(BombAmount)>>}
BettingStreets == {"preflop", "flop", "turn", "river"}
SeatChoices == {None} \cup (0 .. MaxSeats - 1)
Prefs == SUBSET (1 .. MaxSeats) \ {{}}
Viewers == {None} \cup Users
ApiSeatChoices == {None} \cup (0 .. ApiSeats - 1)

\* the requests an Act call may carry: an amount only with raise_to
ActRequests ==
    {<<a, None>> : a \in ActionChoices} \cup {<<"raise_to", x>> : x \in RaiseChoices}

\* the PokerTable row create_table writes
NewMeta(max_seats, bomb) ==
    [max_seats |-> max_seats,
     small_blind |-> Chips(DEFAULT_SMALL_BLIND),
     big_blind |-> Chips(DEFAULT_BIG_BLIND),
     bomb_pot_every_n_hands |-> bomb[1],
     bomb_pot_amount |-> bomb[2]]

\* a websocket nobody holds
ClosedSocket == [open |-> FALSE, viewer |-> None, here |-> TRUE]

\* the state create_table leaves: the row, an empty engine table, users with
\* their balance and no websocket
InitDb(max_seats, bomb) ==
    /\ meta = NewMeta(max_seats, bomb)
    /\ balance = [u \in Users |-> Chips(Wallet)]
    /\ sessions = <<>>
    /\ stack_rows = <<>>
    /\ hand_history = <<>>
    /\ conns = [ws \in Sockets |-> ClosedSocket]
    /\ frames = [ws \in Sockets |-> <<>>]
    /\ now = 0
    /\ asked = None
    /\ answered = None

\* the wall clock advances
Tick ==
    /\ now < MaxTicks * ACTION_TIME_LIMIT
    /\ now' = now + ACTION_TIME_LIMIT
    /\ UNCHANGED <<rpc, table, db, net>>

\* ================================================= the table behind the API
\* Every action is one request handled to its end, the broadcast included.

\* what a request works on; cast tells that it reached the sends of its
\* broadcast
State ==
    [t |-> table, bal |-> balance, ses |-> sessions, rows |-> stack_rows,
     hist |-> hand_history, cs |-> conns, fs |-> frames, cast |-> FALSE]

Becomes(s) ==
    /\ table' = s.t
    /\ balance' = s.bal
    /\ sessions' = s.ses
    /\ stack_rows' = s.rows
    /\ hand_history' = s.hist
    /\ conns' = s.cs
    /\ frames' = s.fs
    /\ UNCHANGED <<rpc, now, meta>>

Here(s) == World(s.t, s.bal, s.ses)
Into(s, w) == [s EXCEPT !.t = w.t, !.bal = w.bal, !.ses = w.ses]

\* the websockets broadcast_table_state sends to, and what it sends: the
\* sockets of the table, then the sockets seated users hold elsewhere
SendFrames(t, cs, fs) ==
    [ws \in Sockets |->
        IF cs[ws].open /\ (cs[ws].here \/ IdxByUser(t, cs[ws].viewer) # 0)
        THEN <<[viewer |-> cs[ws].viewer,
                state |-> table_state_for_viewer(t, cs[ws].viewer)]>>
        ELSE fs[ws]]

\* the end of broadcast_table_state on the table t its engine calls left
Sent(s, t) ==
    [s EXCEPT !.t = t,
              !.rows = persist_table_stacks(s.rows, t),
              !.fs = SendFrames(t, s.cs, s.fs),
              !.cast = TRUE]

\* broadcast_table_state
broadcast_table_state(s, pref, order) ==
    Sent(s, BroadcastTable(s.t, pref, order, now))

\* a handler that raises before its broadcast, or ends with it
Respond(s, r, pref, order) ==
    IF r.err # "" THEN Into(s, r.w) ELSE broadcast_table_state(Into(s, r.w), pref, order)

\* The cards decide who wins a showdown and the shuffle decides the cards.
\* Both matter only to a request that reaches a showdown or starts a hand:
\* the outcomes of handler H are those of every winner preference when it
\* logs a showdown and of every deck order when it starts a hand.
Showed(s, base) ==
    \E k \in DOMAIN base.t.recent_hands :
        /\ k > Len(s.t.recent_hands)
        /\ base.t.recent_hands[k].reason = "showdown"

Started(s, base) == base.t.hand_number # s.t.hand_number

Variants(H(_, _), s, base) ==
    IF ~Showed(s, base) /\ ~Started(s, base) THEN {base}
    ELSE {H(pref, order) :
            pref \in IF Showed(s, base) THEN Prefs ELSE {1 .. MaxSeats},
            order \in IF Started(s, base) THEN 0 .. Shuffles - 1 ELSE {0}}

Outcomes(H(_, _), s) == Variants(H, s, H(1 .. MaxSeats, 0))

\* the model follows a table up to the start of hand MaxHands + 1
Playing == table.hand_number <= MaxHands

Init ==
    /\ InitDb(ApiSeats, <<None, None>>)
    /\ table = NewTable(meta.max_seats, meta.small_blind, meta.big_blind,
                        meta.bomb_pot_every_n_hands, meta.bomb_pot_amount)

\* POST /tables/{id}/sit_me
SitMe(buy_ins) ==
    /\ Playing
    /\ Len(sessions) < MaxSessions
    /\ \E u \in Users, seat \in ApiSeatChoices, buy_in \in buy_ins :
        LET H(pref, order) == Respond(State, sit_me(Here(State), u, seat, buy_in),
                                      pref, order)
        IN  \E s \in Outcomes(H, State) : Becomes(s)

\* the add_player endpoint up to its broadcast
add_anonymous_player(w, stack, seat) == OnTable(w, add_player(w.t, stack, None, seat))

\* POST /tables/{id}/players
AddPlayer(stacks) ==
    /\ Playing
    /\ \E seat \in ApiSeatChoices, stack \in stacks :
        LET H(pref, order) == Respond(State, add_anonymous_player(Here(State), stack, seat),
                                      pref, order)
        IN  \E s \in Outcomes(H, State) : Becomes(s)

\* POST /tables/{id}/change_seat
ChangeSeat ==
    /\ Playing
    /\ \E u \in Users, seat \in 0 .. ApiSeats - 1 :
        LET H(pref, order) == Respond(State, change_seat(Here(State), u, seat), pref, order)
        IN  \E s \in Outcomes(H, State) : Becomes(s)

\* leave_table to its end: a deferred leave returns without a broadcast
LeaveDone(s, r, pref, order) ==
    IF r.pending THEN Into(s, r.w) ELSE Respond(s, r, pref, order)

\* POST /tables/{id}/leave
LeaveTable ==
    /\ Playing
    /\ \E u \in Users :
        LET H(pref, order) == LeaveDone(State, leave_table(Here(State), u), pref, order)
        IN  \E s \in Outcomes(H, State) : Becomes(s)

\* a handler that called _apply_timeouts and then an engine method: the
\* table is left as the call left it, whether it raised or not
Left(w, r) == [w |-> [w EXCEPT !.t = r.t], err |-> r.err]

\* start_hand up to its broadcast
start_hand(w, order, at) ==
    Left(w, start_new_hand(apply_timeouts(w.t, at), order, at))

\* POST /tables/{id}/start_hand
StartHand ==
    /\ Playing
    /\ LET H(pref, order) == Respond(State, start_hand(Here(State), order, now), pref, order)
       IN  \E s \in Outcomes(H, State) : Becomes(s)

\* player_action to its end
AutoStarted(w, order) == [w EXCEPT !.t = auto_start_hand_if_ready(w.t, order, now)]

\* player_action after _auto_progress_hand returned a: a finished hand is
\* recorded, its pending leavers stand up and the next hand may start
AfterProgress(s, a, order) ==
    IF a.finished
    THEN [Into(s, AutoStarted(process_pending_leavers([Here(s) EXCEPT !.t = a.t]), order))
            EXCEPT !.hist = record_hand_history(s.hist, a.t)]
    ELSE [s EXCEPT !.t = a.t]

\* player_action after Table.player_action returned r
AfterPlayerAction(s, r, pref, order) ==
    IF r.err # "" THEN [s EXCEPT !.t = r.t]
    ELSE broadcast_table_state(AfterProgress(s, ProgressedBy(r.t, pref, now), order),
                               pref, order)

player_action(s, player_id, action, amount, pref, order) ==
    AfterPlayerAction(s, apply_action(apply_timeouts(s.t, now), player_id, action, amount, now),
                      pref, order)

\* player_action with the user who sends the request: _ensure_user_in_table_club
\* answers 403 unless the user is the club's owner or an approved member, and
\* the handler makes no other use of current_user before the action is applied
player_action_as(s, current_user, approved, player_id, action, amount, pref, order) ==
    IF ~approved THEN s
    ELSE player_action(s, player_id, action, amount, pref, order)

\* POST /tables/{id}/action
PlayerAction(requests) ==
    /\ Playing
    /\ \E player_id \in 1 .. table.next_player_id - 1, req \in requests :
        LET H(pref, order) == player_action(State, player_id, req[1], req[2], pref, order)
        IN  \E s \in Outcomes(H, State) : Becomes(s)

\* deal_flop, deal_turn and deal_river of the API up to their broadcast
Deal(t, street, at) ==
    CASE street = "flop" -> deal_flop(t, at)
      [] street = "turn" -> deal_turn(t, at)
      [] OTHER -> deal_river(t, at)

deal_street(w, street, at) == Left(w, Deal(apply_timeouts(w.t, at), street, at))

\* POST /tables/{id}/deal_flop, deal_turn, deal_river
DealStreet ==
    /\ Playing
    /\ \E street \in {"flop", "turn", "river"} :
        LET H(pref, order) == Respond(State, deal_street(Here(State), street, now),
                                      pref, order)
        IN  \E s \in Outcomes(H, State) : Becomes(s)

\* the showdown endpoint to its end
AfterShowdown(s, r, pref, order) ==
    IF r.err # "" THEN s
    ELSE broadcast_table_state(
            [s EXCEPT !.t = auto_start_hand_if_ready(r.t, order, now)], pref, order)

showdown_endpoint(s, pref, order) ==
    AfterShowdown(s, showdown(s.t, WinnersBy(s.t, pref)), pref, order)

\* POST /tables/{id}/showdown
Showdown ==
    /\ Playing
    /\ \E pref \in Prefs, order \in 0 .. Shuffles - 1 :
        Becomes(showdown_endpoint(State, pref, order))

\* GET /tables/{id}
GetTableState ==
    /\ Playing
    /\ table' = apply_timeouts(table, now)
    /\ UNCHANGED <<rpc, now, db, net>>

\* a websocket opens on /ws/tables/{id}, its token resolved to a viewer
WsConnect ==
    /\ Playing
    /\ \E ws \in Sockets, viewer \in Viewers :
        /\ ~conns[ws].open
        /\ LET s0 == [State EXCEPT
                        !.cs[ws] = [open |-> TRUE, viewer |-> viewer, here |-> TRUE]]
               H(pref, order) == broadcast_table_state(s0, pref, order)
           IN  \E s \in Outcomes(H, State) : Becomes(s)

\* a user opens a websocket on another table
WsConnectElsewhere ==
    /\ Playing
    /\ \E ws \in Sockets, viewer \in Viewers \ {None} :
        /\ ~conns[ws].open
        /\ conns' = [conns EXCEPT ![ws] = [open |-> TRUE, viewer |-> viewer, here |-> FALSE]]
        /\ UNCHANGED <<rpc, table, now, db, frames>>

\* a websocket of the table receives a message that is not a chat message
WsMessage ==
    /\ Playing
    /\ \E ws \in Sockets :
        /\ conns[ws].open /\ conns[ws].here
        /\ LET H(pref, order) == broadcast_table_state(State, pref, order)
           IN  \E s \in Outcomes(H, State) : Becomes(s)

\* a websocket closes
WsDisconnect ==
    /\ \E ws \in Sockets :
        /\ conns[ws].open
        /\ conns' = [conns EXCEPT ![ws] = ClosedSocket]
        /\ frames' = [frames EXCEPT ![ws] = <<>>]
        /\ UNCHANGED <<rpc, table, now, db>>

\* the table used through its HTTP endpoints alone, by users who raise to a
\* full raise or more
ApiRequests ==
    {<<a, None>> : a \in ActionChoices}
        \cup {<<"raise_to", x>> : x \in {None} \cup {Chips(n) : n \in FullRaise .. MaxRaise}}

Next ==
    \/ SitMe(StackChoices)
    \/ ChangeSeat
    \/ LeaveTable
    \/ StartHand
    \/ PlayerAction(ApiRequests)
    \/ DealStreet
    \/ Showdown
    \/ GetTableState
    \/ Tick

Spec == Init /\ [][Next]_vars

\* the table played from websocket clients, with anonymous players added:
\* the players sit down deep, act, and leave; they raise all-in or not at all
DeepRequests ==
    {<<a, None>> : a \in {"fold", "check", "call"}} \cup {<<"raise_to", Chips(MaxRaise)>>}

NextWs ==
    \/ SitMe({Chips(DeepStack)})
    \/ AddPlayer({Chips(DeepStack)})
    \/ LeaveTable
    \/ PlayerAction(DeepRequests)
    \/ WsConnect
    \/ WsConnectElsewhere
    \/ WsMessage
    \/ WsDisconnect
    \/ Tick

SpecWs == Init /\ [][NextWs]_vars

\* ========================================== one table, hands on fixed seats
\* The engine driven call by call: the players sit down (add_player without a
\* seat, as in src/tests/test_table_betting.py), a hand is started when none is
\* running, the players act through player_action, the clock is enforced, and
\* the hand is moved on by _auto_progress_hand.

RECURSIVE SeatAll(_, _)
SeatAll(t, stacks) ==
    IF stacks = <<>> THEN t
    ELSE SeatAll(add_player(t, Head(stacks), None, None).t, Tail(stacks))

StackLists == UNION {[1 .. n -> StackChoices] : n \in 2 .. MaxSeats}

InitHand ==
    /\ \E bomb \in BombChoices, stacks \in StackLists :
        /\ InitDb(MaxSeats, bomb)
        /\ table = SeatAll(NewTable(meta.max_seats, meta.small_blind, meta.big_blind,
                                    meta.bomb_pot_every_n_hands, meta.bomb_pot_amount),
                           stacks)

HandStart ==
    /\ table.hand_number < MaxHands
    /\ table.street \in {"prehand", "showdown"}
    /\ \E order \in 0 .. Shuffles - 1 :
        /\ table' = start_new_hand(table, order, now).t
        /\ UNCHANGED <<rpc, now, db, net>>

HandAct ==
    \E player_id \in 1 .. table.next_player_id - 1, req \in ActRequests :
        /\ table' = apply_action(table, player_id, req[1], req[2], now).t
        /\ UNCHANGED <<rpc, now, db, net>>

HandProgress ==
    \E pref \in Prefs :
        /\ table' = auto_progress_hand(table, WinnersBy(table, pref), now).t
        /\ UNCHANGED <<rpc, now, db, net>>

HandTimeout == table' = enforce_action_timeout(table, now).t /\ UNCHANGED <<rpc, now, db, net>>

NextHand ==
    \/ HandStart
    \/ HandAct
    \/ HandProgress
    \/ HandTimeout
    \/ Tick

SpecHand == InitHand /\ [][NextHand]_vars

\* ================================================ seating and hydration
\* The seating calls the handlers make on a table between hands, the rows an
\* ended request leaves, and a process that starts again and rebuilds the
\* table from those rows.

InitSeats ==
    /\ InitDb(MaxSeats, <<None, None>>)
    /\ table = NewTable(meta.max_seats, meta.small_blind, meta.big_blind,
                        meta.bomb_pot_every_n_hands, meta.bomb_pot_amount)

\* sit_me's add_player: a user who is not seated takes a seat
SeatUser ==
    \E u \in Users, seat \in SeatChoices, stack \in StackChoices :
        /\ IdxByUser(table, u) = 0
        /\ table.next_player_id <= MaxPlayerIds
        /\ table' = add_player(table, stack, u, seat).t
        /\ UNCHANGED <<rpc, now, db, net>>

\* the players endpoint's add_player: an anonymous player takes a seat
SeatAnonymous ==
    \E seat \in SeatChoices, stack \in StackChoices :
        /\ table.next_player_id <= MaxPlayerIds
        /\ table' = add_player(table, stack, None, seat).t
        /\ UNCHANGED <<rpc, now, db, net>>

\* change_seat's move_player_to_seat; seats beyond the table are asked for too
MoveUser ==
    \E u \in Users, seat \in -1 .. MaxSeats :
        /\ table' = move_player_to_seat(table, u, seat).t
        /\ UNCHANGED <<rpc, now, db, net>>

\* leave_table's remove_player_by_user
RemoveUser ==
    \E u \in Users :
        /\ table' = remove_player_by_user(table, u).t
        /\ UNCHANGED <<rpc, now, db, net>>

\* the _persist_table_stacks of the broadcast that ends a request
PersistStacks ==
    /\ stack_rows' = persist_table_stacks(stack_rows, table)
    /\ UNCHANGED <<rpc, table, now, meta, balance, sessions, hand_history, net>>

\* the process starts again and the next request hydrates the table
Hydrate ==
    /\ table' = get_engine_table(meta, stack_rows)
    /\ UNCHANGED <<rpc, now, db, net>>

NextSeats ==
    \/ SeatUser
    \/ SeatAnonymous
    \/ MoveUser
    \/ RemoveUser
    \/ PersistStacks
    \/ Hydrate

SpecSeats == InitSeats /\ [][NextSeats]_vars

\* ============================================================ run-outs
\* Run-it-twice: the players of an all-in hand may agree on several boards.
\* The table keeps its game kind and the request under negotiation.

GameTypes == {"nlh", "NLH", "plo", "PLO"}

\* str.lower() on the game kinds
Lower(game_type) ==
    CASE game_type \in {"nlh", "NLH"} -> "nlh"
      [] game_type \in {"plo", "PLO"} -> "plo"
      [] OTHER -> game_type

RunoutCounts == {2, 3}
NLH_ONLY == "Run-outs are only supported for NLH"

\* a Table of the given game kind with no run-out asked for
WithRunouts(t, game_type) ==
    t @@ [game_type |-> game_type,
          runout_requested_by |-> None,
          runout_requested_count |-> None,
          runout_accepted |-> {}]

ClearRunouts(t) ==
    [t EXCEPT !.runout_requested_by = None,
              !.runout_requested_count = None,
              !.runout_accepted = {}]

\* the guard without the game kind
RunoutsForAnyGame(t, r) == r

\* the guard every run-out method starts with; r is what the method answers
\* on a Hold'em table
NlhOnly(t, r) == IF Lower(t.game_type) # "nlh" THEN Err(t, NLH_ONLY) ELSE r

\* all remaining players are all-in before the river
AllInSpot(t) ==
    /\ t.street \in {"preflop", "flop", "turn"}
    /\ Cardinality(Contenders(t)) >= 2
    /\ \A i \in Contenders(t) : t.players[i].all_in

Requested(t, i, player_id, runouts) ==
    IF i = 0 \/ i \notin Contenders(t) THEN Err(t, "Player is not in the hand")
    ELSE IF ~AllInSpot(t) THEN Err(t, "Run-outs need every remaining player all-in")
    ELSE IF runouts \notin RunoutCounts THEN Err(t, "Run-outs must be 2 or 3")
    ELSE Ok([t EXCEPT !.runout_requested_by = player_id,
                      !.runout_requested_count = runouts,
                      !.runout_accepted = {player_id}])

request_runouts(t, player_id, runouts) ==
    NlhOnly(t, Requested(t, IdxById(t, player_id), player_id, runouts))

Responded(t, i, player_id, accept) ==
    IF t.runout_requested_by = None THEN Err(t, "No run-out request pending")
    ELSE IF i = 0 \/ i \notin Contenders(t) THEN Err(t, "Player is not in the hand")
    ELSE IF accept THEN Ok([t EXCEPT !.runout_accepted = @ \cup {player_id}])
    ELSE Ok(ClearRunouts(t))

respond_runouts(t, player_id, accept) ==
    NlhOnly(t, Responded(t, IdxById(t, player_id), player_id, accept))

\* the boards to run: the count asked for when every remaining player
\* accepted, else one
BoardsAgreed(t) ==
    IF t.runout_requested_by # None
       /\ \A i \in Contenders(t) : t.players[i].id \in t.runout_accepted
    THEN t.runout_requested_count ELSE 1

\* one board's share paid to its winners W, the odd units to the first of them
PayShare(t, amount, W) ==
    [t EXCEPT !.players = [i \in PIdx(t) |->
        IF i \notin W THEN t.players[i]
        ELSE [t.players[i] EXCEPT !.stack =
                 @ + (amount \div Cardinality(W))
                   + (IF i = SetMin(W) THEN amount % Cardinality(W) ELSE 0)]]]

\* the pot left is paid over k boards, board k won as prefs[k] says
RECURSIVE RunBoards(_, _, _, _)
RunBoards(t, left, k, prefs) ==
    IF k = 0 THEN t
    ELSE RunBoards(PayShare(t, left \div k, WinnersBy(t, prefs[k])),
                   left - (left \div k), k - 1, prefs)

\* the cards of `boards` completions leave the deck; the board shows the last
Completed(t, boards) ==
    LET d == DealToBoard(t, boards * (5 - Len(t.board)))
    IN  [d EXCEPT !.board = SubSeq(t.board, 1, Len(t.board))
                            \o SubSeq(d.board, Len(d.board) - (4 - Len(t.board)), Len(d.board))]

Resolved(t, boards, prefs) ==
    IF ~AllInSpot(t) THEN Err(t, "Run-outs need every remaining player all-in")
    ELSE Ok(finalize_hand(
                ClearRunouts([RunBoards(Completed(t, boards), t.pot, boards, prefs)
                                 EXCEPT !.pot = 0,
                                        !.street = "showdown",
                                        !.next_to_act_seat = None,
                                        !.action_deadline = None]),
                "showdown", t.pot, t.pot))

resolve_all_in_showdown(t, prefs) ==
    NlhOnly(t, Resolved(t, BoardsAgreed(t), prefs))

\* two players sit at a table of some game kind
InitRunouts ==
    /\ InitDb(MaxSeats, <<None, None>>)
    /\ \E game_type \in GameTypes, stacks \in [1 .. 2 -> StackChoices] :
        table = WithRunouts(
                    SeatAll(NewTable(meta.max_seats, meta.small_blind, meta.big_blind,
                                     meta.bomb_pot_every_n_hands, meta.bomb_pot_amount),
                            stacks),
                    game_type)

RequestRunouts ==
    \E player_id \in 1 .. MaxPlayerIds, runouts \in RunoutCounts \cup {1} :
        /\ table' = request_runouts(table, player_id, runouts).t
        /\ UNCHANGED <<rpc, now, db, net>>

RespondRunouts ==
    \E player_id \in 1 .. MaxPlayerIds, accept \in BOOLEAN :
        /\ table' = respond_runouts(table, player_id, accept).t
        /\ UNCHANGED <<rpc, now, db, net>>

ResolveRunouts ==
    \E prefs \in [1 .. SetMax(RunoutCounts) -> Prefs] :
        /\ table' = resolve_all_in_showdown(table, prefs).t
        /\ UNCHANGED <<rpc, now, db, net>>

NextRunouts ==
    \/ HandStart
    \/ HandAct
    \/ HandProgress
    \/ RequestRunouts
    \/ RespondRunouts
    \/ ResolveRunouts

SpecRunouts == InitRunouts /\ [][NextRunouts]_vars

\* ======================================================= table creation
\* The two requests that create a table: POST /tables/ (create_table) and
\* POST /clubs/{club_id}/tables (open_table), each called once with a drawn
\* body by an owner or not.

SeatsAsked == {1, 2, 9, 10}
BlindsAsked == 0 .. 3
NlhSeats == 2 .. 9

\* a row, an engine table, a call or an answer that does not exist
Absent == [absent |-> TRUE]

CreateBodies ==
    [max_seats : SeatsAsked, small_blind : BlindsAsked, big_blind : BlindsAsked,
     game_type : GameTypes]

\* the PokerTable row both handlers write
TableRow(body, game_type) ==
    [max_seats |-> body.max_seats,
     small_blind |-> Chips(body.small_blind),
     big_blind |-> Chips(body.big_blind),
     game_type |-> game_type,
     bomb_pot_every_n_hands |-> None,
     bomb_pot_amount |-> None]

Answer(status, detail, row, engine) ==
    [status |-> status, detail |-> detail, row |-> row, engine |-> engine]

\* create_table behind its request schema: CreateTableRequest.game_type is
\* Literal["NLH", "PLO"], the handler wants "nlh" or "plo"; Table.__init__
\* takes no game_type, so the Table(...) call after the commit raises
create_table(body, club_found, is_owner) ==
    IF body.game_type \notin {"NLH", "PLO"}
    THEN Answer(422, "Input should be 'NLH' or 'PLO'", Absent, Absent)
    ELSE IF ~club_found THEN Answer(404, "Club not found", Absent, Absent)
    ELSE IF body.game_type \notin {"nlh", "plo"}
    THEN Answer(400, "Invalid game type", Absent, Absent)
    ELSE IF ~is_owner THEN Answer(403, "Only club owners can create tables", Absent, Absent)
    ELSE Answer(500, "TypeError", TableRow(body, body.game_type), Absent)

\* open_table: ClubTableCreate has no game_type and the row takes the
\* column's default
open_table(body, club_found, is_owner) ==
    IF ~club_found THEN Answer(404, "Club not found", Absent, Absent)
    ELSE IF ~is_owner THEN Answer(403, "Only club owners can perform this action", Absent, Absent)
    ELSE IF body.small_blind <= 0 \/ body.big_blind <= 0
    THEN Answer(400, "Blinds must be positive", Absent, Absent)
    ELSE IF body.big_blind <= body.small_blind
    THEN Answer(400, "Big blind must exceed small blind", Absent, Absent)
    ELSE Answer(201, "", TableRow(body, "nlh"), Absent)

\* no table yet
InitCreate ==
    /\ table = Absent
    /\ meta = Absent
    /\ balance = [u \in Users |-> Chips(Wallet)]
    /\ sessions = <<>>
    /\ stack_rows = <<>>
    /\ hand_history = <<>>
    /\ conns = [ws \in Sockets |-> ClosedSocket]
    /\ frames = [ws \in Sockets |-> <<>>]
    /\ now = 0
    /\ asked = Absent
    /\ answered = Absent

Answered(route, body, club_found, is_owner, r) ==
    /\ asked' = [route |-> route, body |-> body, club_found |-> club_found,
                 is_owner |-> is_owner]
    /\ answered' = [status |-> r.status, detail |-> r.detail]
    /\ meta' = r.row
    /\ table' = r.engine
    /\ UNCHANGED <<now, balance, sessions, stack_rows, hand_history, net>>

\* POST /tables/
CreateTable ==
    /\ asked = Absent
    /\ \E body \in CreateBodies, club_found \in BOOLEAN, is_owner \in BOOLEAN :
        Answered("POST /tables/", body, club_found, is_owner,
                 create_table(body, club_found, is_owner))

\* POST /clubs/{club_id}/tables
OpenTable ==
    /\ asked = Absent
    /\ \E body \in CreateBodies, club_found \in BOOLEAN, is_owner \in BOOLEAN :
        Answered("POST /clubs/{club_id}/tables", body, club_found, is_owner,
                 open_table(body, club_found, is_owner))

NextCreate == CreateTable \/ OpenTable

SpecCreate == InitCreate /\ [][NextCreate]_vars

\* ========================================================= hand evaluator
\* evaluate_5 on five cards drawn from a deck; a card is <<rank, suit>>.

Rank ==
    [TWO |-> 2, THREE |-> 3, FOUR |-> 4, FIVE |-> 5, SIX |-> 6, SEVEN |-> 7,
     EIGHT |-> 8, NINE |-> 9, TEN |-> 10, JACK |-> 11, QUEEN |-> 12, KING |-> 13,
     ACE |-> 14]

HAND_RANKS ==
    [high_card |-> 1, one_pair |-> 2, two_pair |-> 3, three_of_a_kind |-> 4,
     straight |-> 5, flush |-> 6, full_house |-> 7, four_of_a_kind |-> 8,
     straight_flush |-> 9, royal_flush |-> 10]

\* sorted(..., reverse=True) of the values of f
RECURSIVE SortedDesc(_)
SortedDesc(f) ==
    IF DOMAIN f = {} THEN <<>>
    ELSE LET d == CHOOSE d \in DOMAIN f : \A e \in DOMAIN f : f[d] >= f[e]
         IN  <<f[d]>> \o SortedDesc([e \in DOMAIN f \ {d} |-> f[e]])

RanksOf(cards) == {c[1] : c \in cards}
CountOf(cards, r) == Cardinality({c \in cards : c[1] = r})

card_values(cards) == SortedDesc([c \in cards |-> c[1]])

\* is_flush, without the values it returns beside the flag
is_flush(cards) == Cardinality({c[2] : c \in cards}) = 1

\* is_straight that knows no five-high straight
StraightWithoutWheel(cards) ==
    IF Cardinality(RanksOf(cards)) # 5 THEN <<FALSE, 0>>
    ELSE IF SetMax(RanksOf(cards)) - SetMin(RanksOf(cards)) = 4
    THEN <<TRUE, SetMax(RanksOf(cards))>>
    ELSE <<FALSE, 0>>

is_straight(cards) ==
    IF RanksOf(cards) = {Rank.TWO, Rank.THREE, Rank.FOUR, Rank.FIVE, Rank.ACE}
    THEN <<TRUE, Rank.FIVE>>
    ELSE IF Cardinality(RanksOf(cards)) # 5 THEN <<FALSE, 0>>
    ELSE IF SetMax(RanksOf(cards)) - SetMin(RanksOf(cards)) = 4
    THEN <<TRUE, SetMax(RanksOf(cards))>>
    ELSE <<FALSE, 0>>

\* sorted(counts.values(), reverse=True)
count_values(cards) == SortedDesc([r \in RanksOf(cards) |-> CountOf(cards, r)])

\* max(counts, key=...) of evaluate_5: the rank that occurs n times
RankCounted(cards, n) == SetMax({r \in RanksOf(cards) : CountOf(cards, r) = n})

\* the ranks other than r, high to low
Kickers(cards, r) == SortedDesc([c \in {d \in cards : d[1] # r} |-> c[1]])

PairRanks(cards) == {r \in RanksOf(cards) : CountOf(cards, r) = 2}

\* evaluate_5 with its locals computed
Evaluated(cards, values, counted, flush, straight) ==
    IF flush /\ straight[1]
    THEN IF straight[2] = Rank.ACE THEN <<HAND_RANKS.royal_flush>>
         ELSE <<HAND_RANKS.straight_flush, straight[2]>>
    ELSE IF counted[1] = 4
    THEN <<HAND_RANKS.four_of_a_kind, RankCounted(cards, 4)>>
            \o <<Kickers(cards, RankCounted(cards, 4))[1]>>
    ELSE IF counted = <<3, 2>>
    THEN <<HAND_RANKS.full_house, RankCounted(cards, 3), RankCounted(cards, 2)>>
    ELSE IF flush THEN <<HAND_RANKS.flush>> \o values
    ELSE IF straight[1] THEN <<HAND_RANKS.straight, straight[2]>>
    ELSE IF counted[1] = 3
    THEN <<HAND_RANKS.three_of_a_kind, RankCounted(cards, 3)>>
            \o Kickers(cards, RankCounted(cards, 3))
    ELSE IF counted = <<2, 2, 1>>
    THEN <<HAND_RANKS.two_pair>> \o SortedDesc([r \in PairRanks(cards) |-> r])
            \o <<RankCounted(cards, 1)>>
    ELSE IF counted = <<2, 1, 1, 1>>
    THEN <<HAND_RANKS.one_pair, RankCounted(cards, 2)>>
            \o Kickers(cards, RankCounted(cards, 2))
    ELSE <<HAND_RANKS.high_card>> \o values

evaluate_5(cards) ==
    Evaluated(cards, card_values(cards), count_values(cards), is_flush(cards),
              is_straight(cards))

\* Python's tuple comparison a < b
RECURSIVE TupleLess(_, _)
TupleLess(a, b) ==
    IF b = <<>> THEN FALSE
    ELSE IF a = <<>> THEN TRUE
    ELSE IF Head(a) # Head(b) THEN Head(a) < Head(b)
    ELSE TupleLess(Tail(a), Tail(b))

\* the cards hands are drawn from: the ranks that make the wheel and the
\* six-high straight in two suits, the rest of a royal flush in one, and the
\* other two suits of the deuce and the ace
EvalDeck ==
    ({Rank.TWO, Rank.THREE, Rank.FOUR, Rank.FIVE, Rank.SIX, Rank.ACE} \X {0, 1})
        \cup ({Rank.TEN, Rank.JACK, Rank.QUEEN, Rank.KING} \X {0})
        \cup ({Rank.TWO, Rank.ACE} \X {2, 3})

\* a card's place in the deck's order
CardCode(c) == c[1] * 4 + c[2]

InitEval ==
    /\ table = Absent
    /\ meta = Absent
    /\ balance = [u \in Users |-> Chips(Wallet)]
    /\ sessions = <<>>
    /\ stack_rows = <<>>
    /\ hand_history = <<>>
    /\ conns = [ws \in Sockets |-> ClosedSocket]
    /\ frames = [ws \in Sockets |-> <<>>]
    /\ now = 0
    /\ asked = {}
    /\ answered = <<>>

\* the next card of the hand is drawn, lowest first
DrawCard ==
    /\ Cardinality(asked) < 5
    /\ \E c \in EvalDeck :
        /\ \A d \in asked : CardCode(d) < CardCode(c)
        /\ asked' = asked \cup {c}
    /\ UNCHANGED <<table, now, db, net, answered>>

\* evaluate_5 is called on the five cards
Evaluate5 ==
    /\ Cardinality(asked) = 5
    /\ answered = <<>>
    /\ answered' = evaluate_5(asked)
    /\ UNCHANGED <<table, now, db, net, asked>>

NextEval == DrawCard \/ Evaluate5

SpecEval == InitEval /\ [][NextEval]_vars

\* =================================================== overlapping broadcasts
\* The handlers are coroutines of one event loop. A handler runs without a
\* break up to the first send of its broadcast; every `await ws.send_json` of
\* broadcast_table_state is a point where other handlers may run, and the
\* frame of a send is computed from the live engine table right before it.
\* The model keeps no order of the sockets: a broadcast sends to those it has
\* left in any order, with any other step between two sends.

NumSubscribers == 2
MaxInFlight == 2
Subscribers == 1 .. NumSubscribers

InitFrames ==
    /\ meta = NewMeta(ApiSeats, <<None, None>>)
    /\ table = NewTable(meta.max_seats, meta.small_blind, meta.big_blind,
                        meta.bomb_pot_every_n_hands, meta.bomb_pot_amount)
    /\ balance = [u \in Users |-> Chips(Wallet)]
    /\ sessions = <<>>
    /\ stack_rows = <<>>
    /\ hand_history = <<>>
    /\ conns = [ws \in Subscribers |-> ClosedSocket]
    /\ frames = [ws \in Subscribers |-> <<>>]
    /\ now = 0
    /\ asked = <<>>
    /\ answered = None

\* the locals of a broadcast_table_state that has reached its sends: the
\* sockets of list(connections.items()) it has not sent to yet,
\* player_user_ids, and sent
Casting(t) ==
    [to |-> {ws \in Subscribers : conns[ws].open /\ conns[ws].here},
     users |-> {t.players[i].user_id : i \in PIdx(t)} \ {None},
     sent |-> {}]

\* a request handled up to the sends of its broadcast, if it has one
Begun(s) ==
    /\ table' = s.t
    /\ balance' = s.bal
    /\ sessions' = s.ses
    /\ stack_rows' = s.rows
    /\ hand_history' = s.hist
    /\ asked' = IF s.cast THEN Append(asked, Casting(s.t)) ELSE asked
    /\ UNCHANGED <<now, meta, net, answered>>

\* the model follows MaxInFlight broadcasts at a time
Room == Playing /\ Len(asked) < MaxInFlight

\* POST /tables/{id}/sit_me without a seat, up to the sends
SitMeCast ==
    /\ Room
    /\ Len(sessions) < MaxSessions
    /\ \E u \in Users :
        LET H(pref, order) == Respond(State, sit_me(Here(State), u, None, Chips(DeepStack)),
                                      pref, order)
        IN  \E s \in Outcomes(H, State) : Begun(s)

\* POST /tables/{id}/action without an amount, up to the sends
PlayerActionCast ==
    /\ Room
    /\ \E player_id \in 1 .. table.next_player_id - 1, action \in {"fold", "check", "call"} :
        LET H(pref, order) == player_action(State, player_id, action, None, pref, order)
        IN  \E s \in Outcomes(H, State) : Begun(s)

\* who opens a websocket, and whether on this table: anonymous viewers of the
\* table, and the first user on another table
Watchers == {<<None, TRUE>>, <<1, FALSE>>}

\* table_ws up to its send of the chat history: the websocket is registered
WsOpen ==
    /\ Playing
    /\ \E ws \in Subscribers, viewer \in Viewers, here \in BOOLEAN :
        /\ ~conns[ws].open
        /\ <<viewer, here>> \in Watchers
        /\ \A k \in DOMAIN asked : ws \notin asked[k].to \cup asked[k].sent
        /\ conns' = [conns EXCEPT ![ws] = [open |-> TRUE, viewer |-> viewer, here |-> here]]
        /\ UNCHANGED <<rpc, table, now, db, frames>>

\* table_ws from there: the broadcast after the chat history, and the one on
\* every message that is not a chat message, up to the sends
WsCast ==
    /\ Room
    /\ \E ws \in Subscribers :
        /\ conns[ws].open /\ conns[ws].here
        /\ LET H(pref, order) == broadcast_table_state(State, pref, order)
           IN  \E s \in Outcomes(H, State) : Begun(s)

\* the frame _table_state_for_viewer makes for a websocket
FrameFor(t, ws) ==
    <<[viewer |-> conns[ws].viewer, state |-> table_state_for_viewer(t, conns[ws].viewer)]>>

\* the websockets a broadcast with locals b may send to next: those left of
\* the table's, then those of the seated users it has not sent to
NextSockets(b) ==
    IF b.to # {} THEN b.to
    ELSE {ws \in Subscribers \ b.sent : conns[ws].open /\ conns[ws].viewer \in b.users}

\* one turn of a loop of broadcast_table_state: a frame is made and sent; the
\* send to a closed websocket raises and the websocket is dropped
SendFrame ==
    \E k \in DOMAIN asked : \E ws \in NextSockets(asked[k]) :
        /\ frames' = IF conns[ws].open THEN [frames EXCEPT ![ws] = FrameFor(table, ws)]
                     ELSE frames
        /\ asked' = [asked EXCEPT ![k].to = @ \ {ws},
                                  ![k].sent = IF conns[ws].open THEN @ \cup {ws} ELSE @]
        /\ UNCHANGED <<table, now, db, conns, answered>>

\* broadcast_table_state returns
EndBroadcast ==
    \E k \in DOMAIN asked :
        /\ asked[k].to = {}
        /\ asked' = [j \in 1 .. Len(asked) - 1 |-> IF j < k THEN asked[j] ELSE asked[j + 1]]
        /\ UNCHANGED <<table, now, db, net, answered>>

\* a websocket closes: table_ws unregisters it
WsClose ==
    \E ws \in Subscribers :
        /\ conns[ws].open
        /\ conns' = [conns EXCEPT ![ws] = ClosedSocket]
        /\ frames' = [frames EXCEPT ![ws] = <<>>]
        /\ UNCHANGED <<rpc, table, now, db>>

NextFrames ==
    \/ SitMeCast
    \/ PlayerActionCast
    \/ WsOpen
    \/ WsCast
    \/ SendFrame
    \/ EndBroadcast
    \/ WsClose
    \/ Tick

SpecFrames == InitFrames /\ [][NextFrames]_vars

\* ============================================= a seat taken during a hand
\* The hands of SpecHand on a table with a free seat, which add_player may
\* fill at any time, as sit_me and the add_player endpoint do.

InitJoin ==
    /\ \E stacks \in [1 .. 2 -> StackChoices] :
        /\ InitDb(MaxSeats, <<None, None>>)
        /\ table = SeatAll(NewTable(meta.max_seats, meta.small_blind, meta.big_blind,
                                    meta.bomb_pot_every_n_hands, meta.bomb_pot_amount),
                           stacks)

\* Table.add_player on the next free seat
HandJoin ==
    \E stack \in StackChoices :
        /\ add_player(table, stack, None, None).err = ""
        /\ table' = add_player(table, stack, None, None).t
        /\ UNCHANGED <<rpc, now, db, net>>

NextJoin ==
    \/ HandStart
    \/ HandAct
    \/ HandProgress
    \/ HandTimeout
    \/ HandJoin
    \/ Tick

SpecJoin == InitJoin /\ [][NextJoin]_vars

\* ============================================ a seat given up during a hand
\* The hands of SpecHand among two users and an anonymous player, where a
\* user may leave through the branch of leave_table that removes the player
\* at once.

InitLeave ==
    /\ InitDb(MaxSeats, <<None, None>>)
    /\ \E stacks \in [1 .. 3 -> StackChoices] :
        table = add_player(
                    add_player(
                        add_player(NewTable(meta.max_seats, meta.small_blind, meta.big_blind,
                                            meta.bomb_pot_every_n_hands, meta.bomb_pot_amount),
                                   stacks[1], 1, None).t,
                        stacks[2], 2, None).t,
                    stacks[3], None, None).t

\* leave_table: no hand is running or no seat is on the clock, and the
\* player of user u is removed
HandLeave ==
    \E u \in Users :
        /\ table.street \in {"prehand", "showdown"} \/ table.next_to_act_seat = None
        /\ IdxByUser(table, u) # 0
        /\ table' = remove_player_by_user(table, u).t
        /\ UNCHANGED <<rpc, now, db, net>>

NextLeave ==
    \/ HandStart
    \/ HandAct
    \/ HandProgress
    \/ HandTimeout
    \/ HandLeave
    \/ Tick

SpecLeave == InitLeave /\ [][NextLeave]_vars

\* ================================================== the closing of a table
\* A table with its PokerTable status and age.  The async handlers run one at
\* a time up to their first await; the close_table endpoint of the clubs
\* router is a sync handler, run on a worker thread beside them, so other
\* handlers may run between its TABLES.pop and its report.  The process may
\* start again, which empties TABLES, and a day may pass.

TABLE_EXPIRY == 86400

\* the PokerTable row with its status and created_at
MetaRow(max_seats, status, created_at) ==
    [max_seats |-> max_seats,
     small_blind |-> Chips(DEFAULT_SMALL_BLIND),
     big_blind |-> Chips(DEFAULT_BIG_BLIND),
     bomb_pot_every_n_hands |-> None,
     bomb_pot_amount |-> None,
     status |-> status,
     created_at |-> created_at]

\* TABLES holds an engine for the table
Live(t) == t # Absent

\* the loop of _generate_table_report over the players of an engine
RECURSIVE CashOut(_, _, _)
CashOut(players, bal, ses) ==
    IF players = <<>> THEN [bal |-> bal, ses |-> ses]
    ELSE IF Head(players).user_id = None THEN CashOut(Tail(players), bal, ses)
    ELSE CashOut(Tail(players),
                 [bal EXCEPT ![Head(players).user_id] = @ + RoundChips(Head(players).stack)],
                 finalize_session(ses, Head(players).user_id, Head(players).stack))

\* _generate_table_report with the engine e that _close_table popped
generate_table_report(e, bal, ses) ==
    IF Live(e) THEN CashOut(e.players, bal, ses) ELSE [bal |-> bal, ses |-> ses]

\* the state s and the row m after the report r of _close_table
Closed(s, m, r) ==
    [s |-> [s EXCEPT !.t = Absent, !.bal = r.bal, !.ses = r.ses],
     m |-> [m EXCEPT !.status = "closed"]]

\* _close_table_if_expired
close_table_if_expired(s, m, at) ==
    IF m.status = "active" /\ m.created_at < at - TABLE_EXPIRY
    THEN Closed(s, m, generate_table_report(s.t, s.bal, s.ses))
    ELSE [s |-> s, m |-> m]

\* _get_engine_table: the engine of TABLES, or one hydrated from the rows
\* unless the table is closed
GetOrHydrate(s, m) ==
    IF Live(s.t) THEN [s |-> s, m |-> m, err |-> ""]
    ELSE IF m.status = "closed" THEN [s |-> s, m |-> m, err |-> "Table is closed"]
    ELSE [s |-> [s EXCEPT !.t = get_engine_table(m, s.rows)], m |-> m, err |-> ""]

\* _ensure_user_in_table_club followed by _get_engine_table
EnteredAfter(c) == GetOrHydrate(c.s, c.m)
Entered(s, m, at) == EnteredAfter(close_table_if_expired(s, m, at))

\* the outcomes of a handler H that was let in as e, or was refused
Served(e, H(_, _)) == IF e.err # "" THEN {e.s} ELSE Outcomes(H, e.s)

Lands(s, m) ==
    /\ table' = s.t
    /\ balance' = s.bal
    /\ sessions' = s.ses
    /\ stack_rows' = s.rows
    /\ hand_history' = s.hist
    /\ conns' = s.cs
    /\ frames' = s.fs
    /\ meta' = m
    /\ UNCHANGED <<rpc, now>>

InitClose ==
    /\ meta = MetaRow(ApiSeats, "active", 0)
    /\ table = NewTable(meta.max_seats, meta.small_blind, meta.big_blind,
                        meta.bomb_pot_every_n_hands, meta.bomb_pot_amount)
    /\ balance = [u \in Users |-> Chips(Wallet)]
    /\ sessions = <<>>
    /\ stack_rows = <<>>
    /\ hand_history = <<>>
    /\ conns = [ws \in Sockets |-> ClosedSocket]
    /\ frames = [ws \in Sockets |-> <<>>]
    /\ now = 0
    /\ asked = Absent
    /\ answered = Absent

\* the model follows the table up to the start of hand MaxHands + 1
Followed == IF Live(table) THEN Playing ELSE TRUE

\* POST /tables/{id}/sit_me
OpenSitMe ==
    /\ Followed
    /\ Len(sessions) < MaxSessions
    /\ \E u \in Users :
        LET e == Entered(State, meta, now)
            H(pref, order) == Respond(e.s, sit_me(Here(e.s), u, None, Chips(ShortStack)),
                                      pref, order)
        IN  \E s \in Served(e, H) : Lands(s, e.m)

\* POST /tables/{id}/leave
OpenLeave ==
    /\ Followed
    /\ \E u \in Users :
        LET e == Entered(State, meta, now)
            H(pref, order) == LeaveDone(e.s, leave_table(Here(e.s), u), pref, order)
        IN  \E s \in Served(e, H) : Lands(s, e.m)

\* POST /tables/{id}/action
OpenAction ==
    /\ Followed
    /\ \E player_id \in 1 .. MaxPlayerIds :
        LET e == Entered(State, meta, now)
            H(pref, order) == player_action(e.s, player_id, "fold", None, pref, order)
        IN  \E s \in Served(e, H) : Lands(s, e.m)

\* a websocket opens on /ws/tables/{id}: table_ws calls _get_engine_table only
Subscribe ==
    /\ Followed
    /\ \E ws \in Sockets :
        /\ ~conns[ws].open
        /\ LET e == GetOrHydrate(State, meta)
               s0 == [e.s EXCEPT !.cs[ws] = [open |-> TRUE, viewer |-> None, here |-> TRUE]]
               H(pref, order) == broadcast_table_state(s0, pref, order)
           IN  \E s \in Served(e, H) : Lands(s, meta)

\* close_table of the clubs router on its thread: _close_table pops the engine
CloseBegin ==
    /\ meta.status = "active"
    /\ asked = Absent
    /\ asked' = [engine |-> table]
    /\ table' = Absent
    /\ UNCHANGED <<answered, now, db, net>>

\* ... and writes its report for the engine it popped, then closes the row
CloseEnd ==
    /\ asked # Absent
    /\ LET r == generate_table_report(asked.engine, balance, sessions)
       IN  /\ balance' = r.bal
           /\ sessions' = r.ses
    /\ meta' = [meta EXCEPT !.status = "closed"]
    /\ asked' = Absent
    /\ UNCHANGED <<answered, table, now, stack_rows, hand_history, net>>

\* the process starts again: TABLES is empty and the websockets are gone
Restart ==
    /\ Live(table)
    /\ asked = Absent
    /\ table' = Absent
    /\ conns' = [ws \in Sockets |-> ClosedSocket]
    /\ UNCHANGED <<rpc, now, db, frames>>

\* more than 24 hours pass
DayPasses ==
    /\ now = 0
    /\ asked = Absent
    /\ now' = now + TABLE_EXPIRY + ACTION_TIME_LIMIT
    /\ UNCHANGED <<rpc, table, db, net>>

NextClose ==
    \/ OpenSitMe
    \/ OpenLeave
    \/ OpenAction
    \/ Subscribe
    \/ CloseBegin
    \/ CloseEnd
    \/ Restart
    \/ DayPasses

SpecClose == InitClose /\ [][NextClose]_vars

\* ============================================================== claims

SumOver(t, F(_)) == SumSeq([i \in PIdx(t) |-> F(t.players[i])])
StackOf(p) == p.stack
CommittedOf(p) == p.committed
SumStacks(t) == SumOver(t, StackOf)
SumCommitted(t) == SumOver(t, CommittedOf)
SumStartStacks(t) == SumSeq([i \in DOMAIN t.hand_start_stacks |-> t.hand_start_stacks[i].stack])

\* a step inside one street of one hand
SameStreet == table'.hand_number = table.hand_number /\ table'.street = table.street

\* the player on the clock, 0 when there is none
OnClock(t) == IF t.next_to_act_seat = None THEN 0 ELSE IdxBySeat(t, t.next_to_act_seat)

\* C1 as stated: after start_new_hand, pot + sum of stacks + sum of committed
\* equals the sum of the starting stacks snapshotted at hand start.
C1_ConservationCountingCommitted ==
    table.hand_number >= 1 =>
        table.pot + SumStacks(table) + SumCommitted(table) = SumStartStacks(table)

\* C1 amended: committed chips are already in the pot, so after start_new_hand
\* pot + sum of stacks equals the sum of the starting stacks of the snapshot.
C1_PotPlusStacksConserved ==
    table.hand_number >= 1 => table.pot + SumStacks(table) = SumStartStacks(table)

\* C1 witness: a flop with chips in the pot and a bet made on that street
C1_Witness ==
    /\ table.street = "flop"
    /\ table.pot > 0
    /\ table.current_bet > 0
    /\ \E i \in PIdx(table) : table.players[i].committed > 0 /\ table.players[i].stack > 0

\* C2: a hand that reaches showdown pays the whole pot out: every showdown
\* the table has logged paid as much as the pot held, and a table standing at
\* showdown has an empty pot.
C2_ShowdownReturnsPot ==
    /\ table.street = "showdown" => table.pot = 0
    /\ \A k \in DOMAIN table.recent_hands :
          table.recent_hands[k].reason = "showdown" =>
              table.recent_hands[k].paid = table.recent_hands[k].pot

\* C3: in the frame sent to a subscriber resolved to viewer V, every hole card
\* of a seat whose user id is neither null nor V is the placeholder, whatever
\* the street; cleartext is left to V's own seat and to seats without a user.
C3_HoleCardSecrecy ==
    \A ws \in Sockets : \A n \in DOMAIN frames[ws] :
        LET f == frames[ws][n]
        IN  \A i \in DOMAIN f.state.players :
                LET p == f.state.players[i]
                IN  (p.user_id # None /\ p.user_id # f.viewer) =>
                        \A k \in DOMAIN p.hole_cards : p.hole_cards[k] = MASK

\* C3 witness: a frame for a user shows that user's two cards and two
\* placeholders on the seat of another user
C3_Witness ==
    \E ws \in Sockets : \E n \in DOMAIN frames[ws] :
        LET f == frames[ws][n]
        IN  /\ f.viewer \in Users
            /\ \E i, j \in DOMAIN f.state.players :
                /\ f.state.players[i].user_id = f.viewer
                /\ Len(f.state.players[i].hole_cards) = 2
                /\ f.state.players[i].hole_cards[1] # MASK
                /\ f.state.players[j].user_id \in Users \ {f.viewer}
                /\ f.state.players[j].hole_cards = <<MASK, MASK>>

\* C4: a new hand starts only after the hand before it has ended: every hand
\* number below the current one was logged as ended by a showdown or by the
\* all-fold award, none was overwritten while its betting was open.
C4_NoHandOverwritten ==
    \A n \in 1 .. table.hand_number - 1 :
        \E k \in DOMAIN table.recent_hands :
            /\ table.recent_hands[k].hand_number = n
            /\ table.recent_hands[k].reason \in {"showdown", "all_folded"}

OpenSessions(u) == {k \in DOMAIN sessions : sessions[k].user_id = u /\ sessions[k].cash_out = None}

\* C5: a user never has two TableSession rows without a cash-out on the
\* table, and a sit_me by a user who is seated or has such a row is rejected
\* and changes nothing.
C5_OneOpenSession ==
    \A u \in Users :
        /\ Cardinality(OpenSessions(u)) <= 1
        /\ (IdxByUser(table, u) # 0 \/ OpenSessions(u) # {}) =>
              \A seat \in ApiSeatChoices, buy_in \in StackChoices :
                  LET r == sit_me(Here(State), u, seat, buy_in)
                  IN  r.err # "" /\ r.w = Here(State)

\* C5 witness: a user who cashed out once sits again with one open session
C5_Witness ==
    \E u \in Users :
        /\ IdxByUser(table, u) # 0
        /\ Cardinality(OpenSessions(u)) = 1
        /\ \E k \in DOMAIN sessions : sessions[k].user_id = u /\ sessions[k].cash_out # None

\* C6: no two players of the table sit on the same seat, and every seat index
\* is at least 0 and below max_seats, whatever seating calls and hydrations
\* came before.
C6_SeatExclusivity ==
    /\ \A i, j \in PIdx(table) : i # j => table.players[i].seat # table.players[j].seat
    /\ \A i \in PIdx(table) :
          table.players[i].seat >= 0 /\ table.players[i].seat < table.max_seats

\* C6 witness: a full table rebuilt from its rows, on which a user has since
\* moved away from the seat of the row
C6_Witness ==
    /\ Len(table.players) = table.max_seats
    /\ \E i \in PIdx(table) : table.players[i].user_id = None
    /\ \E i \in PIdx(table), k \in DOMAIN stack_rows :
          /\ table.players[i].user_id = stack_rows[k].user_id
          /\ table.players[i].seat # stack_rows[k].seat
          /\ table.players[i].id = 1
          /\ table.next_player_id > 2


\* the bet a street opens with: the blinds and bomb pot preflop, nothing later
OpeningBet(t) ==
    IF t.street # "preflop" THEN 0
    ELSE IF Falsy(t.bomb_pot_every_n_hands) \/ Falsy(t.bomb_pot_amount)
            \/ t.hand_number % t.bomb_pot_every_n_hands # 0
    THEN t.big_blind
    ELSE Max2(t.big_blind, t.bomb_pot_amount)

\* a step in which the player on the clock makes the first raise of the
\* street, by at least a big blind: a full raise
FullRaiseStep ==
    /\ SameStreet
    /\ table.street \in BettingStreets
    /\ OnClock(table) # 0
    /\ Len(table'.players) = Len(table.players)
    /\ table.current_bet = OpeningBet(table)
    /\ \A i \in PIdx(table) : table.players[i].committed <= table.current_bet
    /\ table'.current_bet >= table.current_bet + table.big_blind
    /\ table'.players[OnClock(table)].committed = table'.current_bet

\* the table after every player on the clock, up to the raiser, has called
RECURSIVE AfterCalls(_, _, _, _)
AfterCalls(t, raiser_seat, at, fuel) ==
    IF fuel = 0 \/ t.next_to_act_seat = None \/ t.next_to_act_seat = raiser_seat THEN t
    ELSE AfterCalls(apply_action(t, t.players[OnClock(t)].id, "call", None, at).t,
                    raiser_seat, at, fuel - 1)

\* C7: after a full raise, once every other player still able to act has
\* called, the betting round is closed: next_to_act is none and the turn
\* does not come back to the raiser.
C7_RaiserGetsNoExtraAction ==
    [][FullRaiseStep =>
        AfterCalls(table', table.next_to_act_seat, now', MaxSeats + 1).next_to_act_seat = None]_vars

\* C8: a raise_to whose increment over current_bet is below the smallest legal
\* raise (never less than the big blind), by a player on the clock whose stack
\* covers a full minimum raise, is rejected with the 'minimum raise' error and
\* changes nothing.
C8_ShortRaiseRejected ==
    \A x \in RaiseChoices :
        LET i == OnClock(table)
            p == table.players[i]
            r == apply_action(table, p.id, "raise_to", x, now)
        IN  (/\ i # 0
             /\ table.street \in BettingStreets
             /\ \A j \in PIdx(table) : table.players[j].committed <= table.current_bet
             /\ p.in_hand /\ ~p.has_folded /\ ~p.all_in
             /\ x # None
             /\ x > table.current_bet
             /\ x - table.current_bet < table.big_blind
             /\ p.committed + p.stack >= table.current_bet + table.big_blind)
            => (r.err = "minimum raise" /\ r.t = table)

\* a step in which the player on the clock raises all-in by less than a big
\* blind, which is less than any full raise, and the betting goes on
ShortAllInRaiseStep ==
    /\ SameStreet
    /\ OnClock(table) # 0
    /\ \A j \in PIdx(table) : table.players[j].committed <= table.current_bet
    /\ table'.next_to_act_seat # None
    /\ Len(table'.players) = Len(table.players)
    /\ table'.current_bet > table.current_bet
    /\ table'.current_bet - table.current_bet < table.big_blind
    /\ table'.players[OnClock(table)].committed = table'.current_bet
    /\ table'.players[OnClock(table)].all_in

\* C9: a short all-in raise is accepted but does not reopen the betting:
\* action_closing_seat is the same after it as before it.
C9_ShortAllInKeepsClosingSeat ==
    [][ShortAllInRaiseStep => table'.action_closing_seat = table.action_closing_seat]_vars

\* the eligible seats in the order of a street without a bet: the seat after
\* the button first, the button last
OrbitPos(t, seat) == (seat - t.dealer_seat - 1) % t.max_seats
EligibleSeats(t) == {s \in Seats(t) : Eligible(t, s)}
FirstInOrbit(t, S) ==
    IF S = {} THEN None
    ELSE CHOOSE s \in S : \A o \in S : OrbitPos(t, s) <= OrbitPos(t, o)
LaterInOrbit(t, seat) ==
    {s \in EligibleSeats(t) : OrbitPos(t, s) > OrbitPos(t, seat)}

\* a step that opens flop, turn or river
StreetOpens ==
    /\ table'.hand_number = table.hand_number
    /\ table'.street # table.street
    /\ table'.street \in {"flop", "turn", "river"}

\* a check (or a call of nothing) on a street without a bet
CheckStepNoBet ==
    /\ SameStreet
    /\ table.street \in {"flop", "turn", "river"}
    /\ table.current_bet = 0
    /\ OnClock(table) # 0
    /\ table'.players = table.players
    /\ table' # table

\* C10: a street that opens without a bet starts with the first eligible seat
\* after the button; a check by a player who is not the last eligible one in
\* that order passes the turn to the next eligible seat, so the street closes
\* only on the action of the last one.
C10_NoBetStreetFullOrbit ==
    [][/\ StreetOpens =>
            table'.next_to_act_seat = FirstInOrbit(table', EligibleSeats(table'))
       /\ (CheckStepNoBet /\ LaterInOrbit(table, table.next_to_act_seat) # {}) =>
            table'.next_to_act_seat =
                FirstInOrbit(table, LaterInOrbit(table, table.next_to_act_seat))]_vars

\* C10 witness: heads-up on the flop with no bet, the seat after the button
\* has checked and the turn is on the button
C10_Witness ==
    /\ table.street = "flop"
    /\ table.current_bet = 0
    /\ Len(table.players) = 2
    /\ EligibleSeats(table) = Seats(table)
    /\ table.next_to_act_seat = table.dealer_seat
    /\ table.action_closing_seat = table.dealer_seat

\* the answer r to a leave_table of user u in world w defers the leave and
\* records the user, nothing else
DeferredOnly(w, r, u) ==
    /\ r.pending
    /\ r.err = ""
    /\ r.w = [w EXCEPT !.t.pending_leave_user_ids = @ \cup {u}]

\* C11 as stated: a leave_table by a seated user while the street is preflop,
\* flop, turn or river returns pending = true and changes nothing but
\* pending_leave_user_ids.
C11_LeaveDuringHandDeferred ==
    \A u \in Users :
        (IdxByUser(table, u) # 0 /\ table.street \in BettingStreets) =>
            DeferredOnly(Here(State), leave_table(Here(State), u), u)

\* C12: a table that stands at showdown after a request has no pending
\* leaver left, and a step that starts a new hand deals in no user who was a
\* pending leaver before it.
C12_PendingLeaversSettled ==
    [][/\ table'.street = "showdown" => table'.pending_leave_user_ids = {}
       /\ table'.hand_number > table.hand_number =>
             \A u \in table.pending_leave_user_ids : IdxByUser(table', u) = 0]_vars

\* the Seat requests C13 looks at: every user, seats beyond the table too,
\* a buy-in of nothing and one above the wallet
SeatRequests ==
    {<<u, seat, buy_in>> :
        u \in Users,
        seat \in {None} \cup (0 - 1 .. ApiSeats),
        buy_in \in {0} \cup StackChoices \cup {Chips(Wallet + 1)}}

\* the reasons for which C13 says a Seat request is rejected
MustReject(w, u, seat, buy_in) ==
    \/ IdxByUser(w.t, u) # 0
    \/ \E k \in DOMAIN w.ses : w.ses[k].user_id = u /\ w.ses[k].cash_out = None
    \/ buy_in <= 0
    \/ w.bal[u] < buy_in
    \/ Len(w.t.players) >= w.t.max_seats
    \/ (seat # None /\ (seat < 0 \/ seat >= w.t.max_seats \/ seat \in Seats(w.t)))

\* what C13 says of the Seat request that sit_me answered with r
SeatAccounted(w, r, u, seat, buy_in) ==
    IF r.err = ""
    THEN /\ ~MustReject(w, u, seat, buy_in)
         /\ r.w.bal = [w.bal EXCEPT ![u] = @ - buy_in]
         /\ r.w.ses = Append(w.ses, [user_id |-> u, buy_in |-> buy_in, cash_out |-> None, profit_loss |-> None])
         /\ Cardinality({k \in DOMAIN r.w.ses :
                            r.w.ses[k].user_id = u /\ r.w.ses[k].cash_out = None}) = 1
         /\ Len(r.w.t.players) = Len(w.t.players) + 1
         /\ SubSeq(r.w.t.players, 1, Len(w.t.players)) = w.t.players
         /\ r.w.t.players[Len(r.w.t.players)].user_id = u
         /\ r.w.t.players[Len(r.w.t.players)].stack = buy_in
         /\ (seat # None => r.w.t.players[Len(r.w.t.players)].seat = seat)
    ELSE /\ MustReject(w, u, seat, buy_in)
         /\ r.w = w

C14_LeaveAccounting ==
    [][\A u \in Users :
          (IdxByUser(table, u) # 0 /\ IdxByUser(table', u) = 0) =>
              \E k \in OpenSessions(u) :
                  /\ sessions'[k].cash_out # None
                  /\ sessions'[k].cash_out = balance'[u] - balance[u]
                  /\ sessions'[k].profit_loss = sessions'[k].cash_out - sessions'[k].buy_in]_vars

\* what the engine's callers may ask of table t at time at, with the answers:
\* every call but start_new_hand
OtherCalls(t, at) ==
    {apply_action(t, player_id, req[1], req[2], at) :
        player_id \in 1 .. MaxPlayerIds, req \in ActRequests}
    \cup {deal_flop(t, at), deal_turn(t, at), deal_river(t, at)}
    \cup {showdown(t, WinnersBy(t, pref)) : pref \in Prefs}
    \cup {add_player(t, q[1], q[2], q[3]) :
            q \in StackChoices \X ({None} \cup Users) \X ({None} \cup (0 - 1 .. MaxSeats))}
    \cup {move_player_to_seat(t, q[1], q[2]) : q \in Users \X (0 - 1 .. MaxSeats)}
    \cup {remove_player_by_user(t, u) : u \in Users}
    \cup {Ok(enforce_action_timeout(t, at).t)}

StartCalls(t, at) == {start_new_hand(t, order, at) : order \in 0 .. Shuffles - 1}

\* the answer r to a start_new_hand on table t: a start that succeeded
\* raised the hand number by one, a rejected one left it
StartCounted(t, r) ==
    IF r.err = "" THEN r.t.hand_number = t.hand_number + 1
    ELSE r.t.hand_number = t.hand_number

\* C15: each successful start_new_hand raises hand_number by exactly one, a
\* rejected one leaves it, and no other engine call changes it.
C15_HandNumberCounts ==
    /\ \A r \in StartCalls(table, now) : StartCounted(table, r)
    /\ \A r \in OtherCalls(table, now) : r.t.hand_number = table.hand_number

\* C15 witness: a table that has played a hand and now holds one player,
\* where a start is rejected
C15_Witness ==
    /\ table.hand_number >= 1
    /\ Len(table.players) = 1
    /\ \A r \in StartCalls(table, now) : r.err # ""

\* C17 as stated: an engine call that fails leaves the table as it was.
C17_EngineErrorsAtomic ==
    \A r \in OtherCalls(table, now) \cup StartCalls(table, now) :
        r.err # "" => r.t = table

\* what C18 asks of a run-out call answered with r on table t
RejectedUnchanged(t, r) == r.err = NLH_ONLY /\ r.t = t

BadConfig(body) ==
    \/ body.max_seats \notin NlhSeats
    \/ body.small_blind <= 0
    \/ body.big_blind <= 0
    \/ body.big_blind <= body.small_blind

\* the standard 9-max table with blinds 1/2
StandardConfig(body) ==
    body.max_seats = 9 /\ body.small_blind = 1 /\ body.big_blind = 2 /\ body.game_type = "NLH"

\* C19 as stated: a create-table request with a bad configuration is rejected
\* and creates neither row nor engine table, and the standard 9-max 1/2 table
\* asked for by a club owner is accepted.
C19_TableCreationValidated ==
    asked # Absent =>
        /\ BadConfig(asked.body) =>
              (answered.status >= 400 /\ meta = Absent /\ table = Absent)
        /\ (StandardConfig(asked.body) /\ asked.club_found /\ asked.is_owner) =>
              (answered.status < 400 /\ meta # Absent)

\* the category of a five-card hand by the rules of poker, as its number in
\* the order high card < one pair < ... < royal flush
OneSuit(hand) == \A c \in hand, d \in hand : c[2] = d[2]
Run(hand) ==
    /\ Cardinality(RanksOf(hand)) = 5
    /\ \/ \A r \in RanksOf(hand) : r - SetMin(RanksOf(hand)) <= 4
       \/ RanksOf(hand) = {14, 2, 3, 4, 5}
Times(hand, n) == {r \in RanksOf(hand) : CountOf(hand, r) = n}
CategoryOf(hand) ==
    CASE OneSuit(hand) /\ RanksOf(hand) = 10 .. 14 -> 10
      [] OneSuit(hand) /\ Run(hand) /\ RanksOf(hand) # 10 .. 14 -> 9
      [] Times(hand, 4) # {} -> 8
      [] Times(hand, 3) # {} /\ Times(hand, 2) # {} -> 7
      [] OneSuit(hand) /\ ~Run(hand) -> 6
      [] Run(hand) /\ ~OneSuit(hand) -> 5
      [] Times(hand, 3) # {} /\ Times(hand, 2) = {} -> 4
      [] Cardinality(Times(hand, 2)) = 2 -> 3
      [] Cardinality(Times(hand, 2)) = 1 /\ Times(hand, 3) = {} -> 2
      [] OTHER -> 1

\* hands to compare with, weak and strong ones of every category
Wheel == {<<14, 0>>, <<2, 1>>, <<3, 0>>, <<4, 0>>, <<5, 0>>}
SixHighStraight == {<<2, 0>>, <<3, 0>>, <<4, 0>>, <<5, 0>>, <<6, 1>>}
ReferenceHands ==
    {Wheel, SixHighStraight,
     {<<10, 0>>, <<11, 0>>, <<12, 0>>, <<13, 0>>, <<14, 0>>},
     {<<2, 1>>, <<3, 1>>, <<4, 1>>, <<5, 1>>, <<14, 1>>},
     {<<2, 1>>, <<3, 1>>, <<4, 1>>, <<5, 1>>, <<6, 1>>},
     {<<2, 0>>, <<2, 1>>, <<2, 2>>, <<2, 3>>, <<3, 0>>},
     {<<14, 0>>, <<14, 1>>, <<14, 2>>, <<14, 3>>, <<13, 0>>},
     {<<2, 0>>, <<2, 1>>, <<2, 2>>, <<3, 0>>, <<3, 1>>},
     {<<14, 0>>, <<14, 1>>, <<14, 2>>, <<13, 0>>, <<13, 1>>},
     {<<2, 0>>, <<3, 0>>, <<4, 0>>, <<5, 0>>, <<10, 0>>},
     {<<14, 1>>, <<13, 1>>, <<12, 1>>, <<11, 1>>, <<6, 1>>},
     {<<10, 0>>, <<11, 0>>, <<12, 0>>, <<13, 0>>, <<14, 1>>},
     {<<2, 0>>, <<2, 1>>, <<2, 2>>, <<3, 0>>, <<4, 0>>},
     {<<14, 0>>, <<14, 1>>, <<14, 2>>, <<13, 0>>, <<12, 0>>},
     {<<2, 0>>, <<2, 1>>, <<3, 0>>, <<3, 1>>, <<4, 0>>},
     {<<14, 0>>, <<14, 1>>, <<13, 0>>, <<13, 1>>, <<12, 0>>},
     {<<2, 0>>, <<2, 1>>, <<3, 0>>, <<4, 0>>, <<5, 0>>},
     {<<14, 0>>, <<14, 1>>, <<13, 0>>, <<12, 0>>, <<11, 0>>},
     {<<2, 0>>, <<3, 0>>, <<4, 0>>, <<5, 0>>, <<10, 1>>},
     {<<14, 0>>, <<13, 0>>, <<12, 0>>, <<11, 0>>, <<6, 1>>}}

\* the ranking of hand, which evaluate_5 ranked as `ranked`, against hand h
OrderedWith(hand, ranked, h) ==
    /\ CategoryOf(hand) > CategoryOf(h) => TupleLess(evaluate_5(h), ranked)
    /\ CategoryOf(hand) < CategoryOf(h) => TupleLess(ranked, evaluate_5(h))

\* C20: evaluate_5 ranks a hand of a higher category above every hand of a
\* lower one (royal flush > straight flush > quads > full house > flush >
\* straight > trips > two pair > one pair > high card), and the wheel
\* A-2-3-4-5 is a five-high straight: above every three of a kind, below the
\* six-high straight and below every flush.
C20_EvaluatorOrder ==
    answered # <<>> =>
        /\ answered[1] = CategoryOf(asked)
        /\ \A h \in ReferenceHands : OrderedWith(asked, answered, h)
        /\ (RanksOf(asked) = RanksOf(Wheel) /\ ~OneSuit(asked)) =>
              answered = <<HAND_RANKS.straight, Rank.FIVE>>
        /\ CategoryOf(asked) = 4 => TupleLess(answered, evaluate_5(Wheel))
        /\ CategoryOf(asked) = 6 => TupleLess(evaluate_5(Wheel), answered)
        /\ TupleLess(evaluate_5(Wheel), evaluate_5(SixHighStraight))

\* C20 witness: the wheel has been evaluated
C20_Witness ==
    /\ asked = Wheel
    /\ answered = <<HAND_RANKS.straight, Rank.FIVE>>

\* the streets of a hand in the order they are played
StreetNo(street) ==
    CHOOSE k \in 1 .. 6 :
        <<"prehand", "preflop", "flop", "turn", "river", "showdown">>[k] = street

\* frame g may follow frame f
InOrder(f, g) ==
    /\ g.hand_number >= f.hand_number
    /\ g.hand_number = f.hand_number => StreetNo(g.street) >= StreetNo(f.street)

Contributed(t, i) == t.hand_start_stacks[i].stack - t.players[i].stack

\* the most the player at index i may win: from every opponent, what that
\* opponent contributed up to i's own contribution
Winnable(t, i) ==
    SumSeq([o \in PIdx(t) |->
               IF o = i THEN 0 ELSE Min2(Contributed(t, o), Contributed(t, i))])

\* a step in which Table.showdown ends the running hand
ShownDown ==
    /\ table'.hand_number = table.hand_number
    /\ table.street \in BettingStreets
    /\ table'.street = "showdown"
    /\ Len(table'.players) = Len(table.players)
    /\ Len(table'.recent_hands) = Len(table.recent_hands) + 1
    /\ table'.recent_hands[Len(table'.recent_hands)].reason = "showdown"

\* C21: at showdown the pot is split into side pots by contribution: no
\* player ends the hand having won from an opponent more than the player's
\* own contribution to the hand.
C21_SidePotsCapWinnings ==
    [][ShownDown =>
          \A i \in PIdx(table) :
              table'.players[i].stack - table.hand_start_stacks[i].stack
                  <= Winnable(table, i)]_vars

\* the player on the clock checks, or calls when facing a bet
CheckOrCall(t, at) ==
    apply_action(t, t.players[OnClock(t)].id,
                 IF t.players[OnClock(t)].committed = t.current_bet THEN "check" ELSE "call",
                 None, at).t

\* the table after the players who get the turn have checked or called,
\* `fuel` times at most
RECURSIVE CheckedAround(_, _, _)
CheckedAround(t, at, fuel) ==
    IF fuel = 0 \/ t.next_to_act_seat = None \/ OnClock(t) = 0 THEN t
    ELSE CheckedAround(CheckOrCall(t, at), at, fuel - 1)

AbleToAct(t) == {i \in PIdx(t) : CanAct(t.players[i])}

\* the betting of the street is closed
StreetClosed(t) == t.next_to_act_seat = None /\ betting_round_settled(t)

\* C22: on a betting street with a player on the clock, if every player who
\* gets the turn checks or calls, the street closes after at most one action
\* per player still able to act.
C22_PassiveRoundCloses ==
    (table.street \in BettingStreets /\ table.next_to_act_seat # None) =>
        StreetClosed(CheckedAround(table, now, Cardinality(AbleToAct(table))))

\* the players still in the hand who have not folded
NotFolded(t) == {i \in PIdx(t) : t.players[i].in_hand /\ ~t.players[i].has_folded}

\* a step of a running hand in which a player folds, the same players seated
FoldStep ==
    /\ table.street \in BettingStreets
    /\ table'.hand_number = table.hand_number
    /\ Len(table'.players) = Len(table.players)
    /\ \A i \in PIdx(table) : table'.players[i].id = table.players[i].id
    /\ \E i \in PIdx(table) : ~table.players[i].has_folded /\ table'.players[i].has_folded

\* the hand of table t has been awarded and finalized
Awarded(t) ==
    /\ t.street = "showdown"
    /\ t.pot = 0
    /\ SumStacks(t) = SumStartStacks(t)
    /\ t.next_to_act_seat = None
    /\ t.action_deadline = None
    /\ t.current_hand_log = None
    /\ t.recent_hands # <<>>
    /\ t.recent_hands[Len(t.recent_hands)].hand_number = t.hand_number

\* C23: when a fold, requested or by timeout, leaves exactly one player who
\* has not folded, the pot is paid to that player, the street is showdown,
\* the clock is cleared and the hand is in the log of recent hands.
C23_AllFoldAwardsPot ==
    [][(FoldStep /\ Cardinality(NotFolded(table')) = 1) => Awarded(table')]_vars

\* the player with id player_id may act on table t: it is that player's turn
\* and the player is in the hand, has not folded and is not all-in
MayAct(t, player_id) ==
    /\ t.next_to_act_seat # None
    /\ IdxById(t, player_id) # 0
    /\ t.players[IdxById(t, player_id)].seat = t.next_to_act_seat
    /\ CanAct(t.players[IdxById(t, player_id)])

\* the call that returned r on table t failed and changed nothing
Refused(t, r) == r.err # "" /\ r.t = t

\* C24: a betting action is applied only for the player on the clock who is
\* in the hand, not folded and not all-in; any other player's action, and any
\* action while no seat is on the clock, fails and changes nothing.
C24_OnlyTheTurnActs ==
    \A player_id \in 1 .. MaxPlayerIds, req \in ActRequests :
        ~MayAct(table, player_id) =>
            Refused(table, apply_action(table, player_id, req[1], req[2], now))

\* C24 witness: a player in the hand who is not on the clock asks to fold
C24_Witness ==
    /\ table.street \in BettingStreets
    /\ table.next_to_act_seat # None
    /\ \E i \in PIdx(table) :
        /\ CanAct(table.players[i])
        /\ table.players[i].seat # table.next_to_act_seat
        /\ apply_action(table, table.players[i].id, "fold", None, now).err
              = "Not player's turn to act"

\* the players seated after the running hand was started: start_new_hand
\* took no snapshot of their stack
SeatedDuringHand(t) ==
    {i \in PIdx(t) :
        \A k \in DOMAIN t.hand_start_stacks : t.hand_start_stacks[k].id # t.players[i].id}

\* the player at index i of table t takes no part in the hand
TakesNoPart(t, i) ==
    /\ t.next_to_act_seat # t.players[i].seat
    /\ i \notin Contenders(t)

\* C25: a player seated while a hand is in progress takes no part in it:
\* while the hand runs the player is never on the clock and never among the
\* players remaining in the hand, and the player's stack is not changed by
\* the hand.
C25_LateSeatOutOfHand ==
    [][(table.street \in BettingStreets /\ table'.hand_number = table.hand_number) =>
          /\ \A i \in SeatedDuringHand(table') :
                table'.street \in BettingStreets => TakesNoPart(table', i)
          /\ \A i \in SeatedDuringHand(table) :
                table'.players[i].stack = table.players[i].stack]_vars

\* the user who holds the seat of the player with id player_id, None when
\* there is no such player
SeatOwner(t, player_id) ==
    IF IdxById(t, player_id) = 0 THEN None ELSE t.players[IdxById(t, player_id)].user_id

\* the request changed nothing but what the timeout sweep changes
NotApplied(t, s) == s.t = apply_timeouts(t, now)

\* C26: an Act request of an approved club member is applied only when the
\* player id it names is the seat of that user: for a seat of another user
\* the table is left as the timeout sweep of the request leaves it.
C26_ActOnlyOwnSeat ==
    \A u \in Users, player_id \in 1 .. MaxPlayerIds, action \in {"fold", "call"} :
        SeatOwner(table, player_id) # u =>
            NotApplied(table, player_action_as(State, u, TRUE, player_id, action, None,
                                               1 .. MaxSeats, 0))

\* a seat is on the clock of table t and its deadline has passed at time `at`
TimedOut(t, at) ==
    t.next_to_act_seat # None /\ t.action_deadline # None /\ at >= t.action_deadline

\* r folded the player who was on the clock of t, and touched no other player
FoldedOnClock(t, r) ==
    /\ r.action = "fold"
    /\ OnClock(t) # 0
    /\ Len(r.t.players) = Len(t.players)
    /\ r.t.players[OnClock(t)] =
          [t.players[OnClock(t)] EXCEPT !.has_folded = TRUE, !.in_hand = FALSE]
    /\ \A j \in PIdx(t) \ {OnClock(t)} : r.t.players[j] = t.players[j]
    /\ r.t.pot = t.pot

\* what enforce_action_timeout may return as r on table t at time `at`
TimerKept(t, r, at) ==
    IF TimedOut(t, at) THEN FoldedOnClock(t, r)
    ELSE r.action = "none" /\ r.t = t

\* C27: enforce_action_timeout folds the player on the clock if and only if
\* a seat is on the clock and the deadline has passed; the fold touches that
\* player only, and otherwise the call changes nothing.
C27_TimerFoldsOnlyWhenDue ==
    TimerKept(table, enforce_action_timeout(table, now), now)

\* C27 witness: the deadline of the player on the clock has passed and the
\* call folds that player
C27_Witness ==
    /\ TimedOut(table, now)
    /\ now > 0
    /\ enforce_action_timeout(table, now).action = "fold"
    /\ enforce_action_timeout(table, now).t.players[OnClock(table)].has_folded

\* the clock of table t is cleared
ClockCleared(t) == t.next_to_act_seat = None /\ t.action_deadline = None

\* the result r of one enforce_action_timeout at time `at`, when it is a
\* fold, left the clock cleared or the deadline one time limit after `at`
FoldResetsClock(r, at) ==
    r.action = "fold" =>
        \/ ClockCleared(r.t)
        \/ r.t.next_to_act_seat # None /\ r.t.action_deadline = at + r.t.action_time_limit

\* the loop of _apply_timeouts run for at most `fuel` calls: the table it
\* has reached, the folds made, and whether a call returned None
RECURSIVE Sweep(_, _, _, _)
SweepOn(r, at, fuel, folds) ==
    IF r.action = "none" THEN [t |-> r.t, folds |-> folds, ended |-> TRUE]
    ELSE Sweep(r.t, at, fuel - 1, folds + 1)
Sweep(t, at, fuel, folds) ==
    IF fuel = 0 THEN [t |-> t, folds |-> folds, ended |-> FALSE]
    ELSE SweepOn(enforce_action_timeout(t, at), at, fuel, folds)

\* the sweep w ended, with the clock cleared or the deadline after `at`
SweptClean(w, at) ==
    /\ w.ended
    /\ ClockCleared(w.t) \/ (w.t.next_to_act_seat # None /\ w.t.action_deadline > at)

\* C28: every automatic fold clears the clock or moves the deadline to
\* now + action_time_limit, and the timeout sweep ends within one call per
\* seated player plus one, with the clock cleared or the deadline in the
\* future.
C28_SweepTerminates ==
    /\ FoldResetsClock(enforce_action_timeout(table, now), now)
    /\ SweptClean(Sweep(table, now, Len(table.players) + 1, 0), now)

\* C28 witness: a deadline has passed, and the sweep folds and ends
C28_Witness ==
    /\ TimedOut(table, now)
    /\ Sweep(table, now, Len(table.players) + 1, 0).folds >= 1
    /\ Sweep(table, now, Len(table.players) + 1, 0).ended

\* a hand is running on table t, its betting round is settled, no seat is on
\* the clock, and every player still in the hand and not folded is all-in
AllInAndSettled(t) ==
    /\ t.street \in BettingStreets
    /\ t.next_to_act_seat = None
    /\ betting_round_settled(t)
    /\ NotFolded(t) # {}
    /\ \A i \in NotFolded(t) : t.players[i].all_in

\* the hand of table t has ended at showdown with the whole board dealt
RanOut(t) == t.street = "showdown" /\ Len(t.board) = 5 /\ t.pot = 0

\* C29: when the betting round is settled, no seat is on the clock and every
\* remaining non-folded player is all-in, one call of _auto_progress_hand
\* leaves the hand at street showdown with a 5-card board and pot 0.
C29_AllInFastForward ==
    AllInAndSettled(table) =>
        \A pref \in Prefs : RanOut(ProgressedBy(table, pref, now).t)

Idle(t) == t.street \in {"prehand", "showdown"}

\* the sweep of broadcast_table_state took table t to table b: with two
\* players or more b is in a hand, the next one if t was between hands; with
\* fewer no hand was started
SweptIntoHand(t, b) ==
    /\ Len(b.players) >= 2 =>
          /\ ~Idle(b)
          /\ Idle(t) => b.street = "preflop" /\ b.hand_number = t.hand_number + 1
    /\ Len(b.players) < 2 => b.hand_number = t.hand_number

\* C30: a sweep of broadcast_table_state on a table with at least two seated
\* players does not leave it in prehand or showdown, and starts the next hand
\* (street preflop, hand_number incremented) if the street was prehand or
\* showdown; with fewer than two players no hand is started.
C30_AutoStart ==
    \A pref \in Prefs, order \in 0 .. Shuffles - 1 :
        SweptIntoHand(table, BroadcastTable(table, pref, order, now))

\* C30 witness: a hand has ended at showdown with two players seated, and the
\* sweep starts the next hand
C30_Witness ==
    /\ table.street = "showdown"
    /\ table.hand_number >= 1
    /\ Len(table.players) >= 2
    /\ BroadcastTable(table, 1 .. MaxSeats, 0, now).street = "preflop"
    /\ BroadcastTable(table, 1 .. MaxSeats, 0, now).hand_number = table.hand_number + 1

\* the seated players of table t who have chips
WithChips(t) == {i \in PIdx(t) : t.players[i].stack > 0}

\* the result r of start_new_hand on table t: a rejection that changes
\* nothing unless two players have chips, and no player without chips dealt in
StartChecked(t, r) ==
    /\ Cardinality(WithChips(t)) < 2 => r.err # "" /\ r.t = t
    /\ r.err = "" =>
          \A i \in PIdx(t) :
              t.players[i].stack = 0 =>
                  ~r.t.players[i].in_hand /\ r.t.players[i].hole_cards = <<>>

\* C31: start_new_hand is rejected, leaving the table (hand_number included)
\* unchanged, unless at least two seated players have stack > 0, and a player
\* with stack 0 is never dealt into a hand.
C31_StartNeedsTwoWithChips ==
    \A order \in 0 .. Shuffles - 1 :
        StartChecked(table, start_new_hand(table, order, now))

\* the chips of the wallets, of the stacks on the table and of the pot
TotalChips(bal, t) ==
    SumSeq([u \in 1 .. NumUsers |-> bal[u]]) + SumStacks(t) + t.pot

\* C32: across sit_me, leave_table, betting actions, timeouts, showdowns and
\* hand starts, the wallet balances plus the stacks on the table plus the pot
\* stay constant: no step creates or destroys chips.
C32_GlobalChipConservation ==
    [][TotalChips(balance', table') = TotalChips(balance, table)]_vars

\* C33: each session is cashed out exactly once: a wallet is credited only in
\* a step that closes an open session of its user, and a closed session is
\* never written again, whichever of leave_table, _process_pending_leavers
\* and close_table take the steps.
OpenSessionsOf(ses, u) == {k \in DOMAIN ses : ses[k].user_id = u /\ ses[k].cash_out = None}

C33_CashedOutOnce ==
    [][/\ \A u \in Users :
            balance'[u] > balance[u] =>
                \E k \in OpenSessionsOf(sessions, u) : sessions'[k].cash_out # None
       /\ \A k \in DOMAIN sessions :
            sessions[k].cash_out # None => sessions'[k] = sessions[k]]_vars

\* the table of row m is closed, or was created more than 24 hours before `at`
Dead(m, at) == m.status = "closed" \/ m.created_at < at - TABLE_EXPIRY

\* C38: no engine is created for a table that has no live engine when its row
\* is closed or its created_at is more than 24 hours old.
C38_NoEngineForDeadTable ==
    [][(~Live(table) /\ Live(table')) => ~Dead(meta, now)]_vars

\* the seats of table t counted clockwise from the seat after `seat`
After(t, seat, s) == (s - seat - 1) % t.max_seats
FirstAfter(t, seat, S) ==
    IF S = {} THEN None
    ELSE CHOOSE s \in S : \A o \in S : After(t, seat, s) <= After(t, seat, o)

\* the positions post_blinds is to leave on table t
BlindsPlaced(t) ==
    /\ t.small_blind_seat = t.dealer_button_seat
    /\ t.big_blind_seat = FirstAfter(t, t.dealer_button_seat, Seats(t) \ {t.dealer_button_seat})
    /\ t.next_to_act_seat = FirstAfter(t, t.big_blind_seat, EligibleSeats(t))
    /\ t.action_closing_seat = t.big_blind_seat

\* a step that starts a hand
HandStarts == table'.hand_number = table.hand_number + 1 /\ table'.street = "preflop"

\* the big blind of table t, as an index into the players; 0 if the seat is empty
BigBlind(t) == IF t.big_blind_seat = None THEN 0 ELSE IdxBySeat(t, t.big_blind_seat)

\* preflop on table t, nobody has raised, and the big blind can still act
UnraisedPreflop(t) ==
    /\ t.street = "preflop"
    /\ t.current_bet = t.big_blind
    /\ BigBlind(t) # 0
    /\ CanAct(t.players[BigBlind(t)])

\* a step of a player's action, not a raise, that closes the betting round
\* of the street
RoundCloses ==
    /\ SameStreet
    /\ table'.current_bet = table.current_bet
    /\ Len(table'.players) = Len(table.players)
    /\ table.next_to_act_seat # None
    /\ table'.next_to_act_seat = None

\* a step in which the big blind, on the clock, checks
BigBlindChecks ==
    /\ SameStreet
    /\ Len(table'.players) = Len(table.players)
    /\ OnClock(table) = BigBlind(table)
    /\ table.players[BigBlind(table)].committed = table.current_bet
    /\ table'.players = table.players
    /\ table' # table

\* C34: start_new_hand leaves the small blind on the button seat, the big
\* blind on the next occupied seat, the first eligible seat after the big
\* blind on the clock and the big blind as closing seat; an unraised preflop
\* round whose big blind can act closes only on an action of the big blind,
\* and closes when the big blind checks.
C34_BigBlindOption ==
    [][/\ HandStarts => BlindsPlaced(table')
       /\ (UnraisedPreflop(table) /\ RoundCloses) => OnClock(table) = BigBlind(table)
       /\ (UnraisedPreflop(table) /\ BigBlindChecks) => table'.next_to_act_seat = None]_vars

\* a step in which showdown pays the pot of the running hand
ShowdownPays ==
    /\ table.current_hand_log # None
    /\ table'.current_hand_log = None
    /\ table'.recent_hands # <<>>
    /\ table'.recent_hands[Len(table'.recent_hands)].reason = "showdown"
    /\ Len(table'.players) = Len(table.players)
    /\ table.pot > 0

\* what player i gains in the step, and the players who gain
Gain(i) == table'.players[i].stack - table.players[i].stack
Gainers == {i \in PIdx(table) : Gain(i) > 0}

\* the whole-chip share of k winners of pot, and the chips left over
WholeShare(pot, k) == Chips((pot \div Unit) \div k)
Remainder(pot, k) == pot - k * WholeShare(pot, k)

\* the winner seated nearest to the left of the button
FirstWinner(t, W) ==
    IdxBySeat(t, FirstAfter(t, t.dealer_button_seat, {t.players[i].seat : i \in W}))

\* C35: a showdown that pays k winners gives each the whole-chip share pot / k,
\* gives the remainder to the winner nearest to the left of the button, pays
\* out the pot exactly and leaves the pot 0.
C35_ShowdownSplit ==
    [][(ShowdownPays /\ Gainers # {}) =>
         LET k == Cardinality(Gainers)
         IN  /\ \A i \in Gainers :
                  Gain(i) = WholeShare(table.pot, k)
                            + (IF i = FirstWinner(table, Gainers)
                               THEN Remainder(table.pot, k) ELSE 0)
             /\ SumSeq([i \in PIdx(table) |-> Gain(i)]) = table.pot
             /\ table'.pot = 0]_vars

\* a step in which a hand of the table finalizes
HandFinalizes == Len(table'.recent_hands) > Len(table.recent_hands)

\* the HandHistory rows written in the step, and those of user u
RowsWritten == SubSeq(hand_history', Len(hand_history) + 1, Len(hand_history'))
RowsOf(u) == SelectSeq(RowsWritten, LAMBDA row : row.user_id = u)

\* the label of a row matches the sign of its net_change
Labelled(row) ==
    row.result = IF row.net_change > 0 THEN "Win"
                 ELSE IF row.net_change < 0 THEN "Loss" ELSE "Even"

\* the users seated at table t
SeatedUsers(t) == {t.players[i].user_id : i \in PIdx(t)} \ {None}

\* C36: a step in which a hand finalizes writes exactly one HandHistory row
\* for each user seated at the table, whose label Win, Loss or Even matches the
\* sign of its net_change.
C36_HandHistoryWritten ==
    [][HandFinalizes =>
         \A u \in SeatedUsers(table) \cap SeatedUsers(table') :
             /\ Len(RowsOf(u)) = 1
             /\ Labelled(RowsOf(u)[1])]_vars

\* the seats vacated in the step
Vacated == Seats(table) \ Seats(table')

\* the position markers of table t
Markers(t) ==
    {t.dealer_seat, t.dealer_button_seat, t.small_blind_seat, t.big_blind_seat,
     t.next_to_act_seat, t.action_closing_seat}

\* C37: after a step that removes a player by user, no position marker of the
\* table (dealer, button, small blind, big blind, next to act, closing seat)
\* is the vacated seat, and the deadline is None when no seat is on the clock.
C37_RemoveClearsMarkers ==
    [][Vacated # {} =>
         /\ Markers(table') \cap Vacated = {}
         /\ (table'.next_to_act_seat = None => table'.action_deadline = None)]_vars

\* C39: on a betting street no player has committed more than current_bet.
C39_CommittedWithinBet ==
    table.street \in BettingStreets =>
        \A i \in PIdx(table) : table.players[i].committed <= table.current_bet

\* the seat on the clock of table t is held by a player who can act
ClockOnActor(t) ==
    /\ t.next_to_act_seat \in Seats(t)
    /\ Eligible(t, t.next_to_act_seat)

\* C40: when a seat is on the clock the street is a betting street, the seat
\* is held by a player in the hand, not folded and not all-in, and the deadline
\* is set; when no seat is on the clock the deadline is None.
C40_ClockWellFormed ==
    IF table.next_to_act_seat # None
    THEN /\ table.street \in BettingStreets
         /\ ClockOnActor(table)
         /\ table.action_deadline # None
    ELSE table.action_deadline = None

\* a player has left the table, a round has closed and a seat is on the clock
\* of the flop
C40_Witness ==
    /\ table.street = "flop"
    /\ table.next_to_act_seat # None
    /\ table.action_deadline # None
    /\ Len(table.players) < MaxSeats

=============================================================================
